---------------------------- MODULE Spec2Model ----------------------------
(***************************************************************************)
(* Model of the ddd-helpers dispatch core: the message bus                 *)
(* (ddd/messagebus.py), the eventful unit of work                          *)
(* (ddd/units_of_work/eventful_unit_of_work.py), the eventful repository   *)
(* (ddd/repositories/eventful_repository.py) with its tracked "seen" set   *)
(* (ddd/metaclasses/tracker.py) and the message order                      *)
(* (ddd/messages/message.py).  ddd/queue.py and ddd/errors.py are not part *)
(* of the sources at hand; MessageQueue is modelled from its unit tests    *)
(* and its description (a deque kept sorted by created_at, stably).        *)
(***************************************************************************)
EXTENDS Integers, Sequences, FiniteSets, TLC

(***************************************************************************)
(* Bounds of the model.                                                    *)
(***************************************************************************)
\* Largest value of the clock; timestamps are 0..MaxTime.
MaxTime == 1
\* Total number of message objects constructed in one behaviour.
MaxMsgs == 3
\* Total number of subscribe() calls in one behaviour.
MaxSubs == 2
\* Total number of events the aggregates emit in a behaviour of the
\* repository on its own.
MaxEmits == 4
\* Number of messages put into one MessageQueue object on its own.
MaxQLen == 3
\* Length of the longest iterable handed to a MessageQueue.
MaxIter == 2
\* Length of the longest collection a repository's list() returns.
MaxResults == 2
\* Number of unit-of-work scopes entered in one behaviour.
MaxScopes == 2
\* Number of MessageBroker() constructions in one behaviour.
MaxRefs == 2
\* Number of subscriptions made to the broker in one behaviour.
MaxBrokerSubs == 2
\* Number of objects made by the classes of SingletonMeta in one behaviour.
MaxInstances == 3
\* Number of add, commit and rollback calls made on one XlsxRepository.
MaxXlsxOps == 5
\* Number of sessions the session factory makes in one behaviour.
MaxSessions == 3

Times == 0..MaxTime

CommandTypes == {"CmdA"}
EventTypes == {"EvtA", "EvtB"}
MessageTypes == CommandTypes \cup EventTypes
\* A class that is neither a command nor an event (subscribe's else branch).
OtherTypes == {"NotAMessage"}

\* The callables registered as handlers.
Handlers == {"h1", "h2"}

\* The aggregates of the domain (hashable, with a private events queue).
Aggregates == {"A", "B"}

VARIABLES
    command_handlers,   \* BaseMessageBus.command_handlers: type -> handler
    event_handlers,     \* BaseMessageBus.event_handlers: type -> list of handlers
    ehDefault,          \* whether event_handlers was given as a defaultdict(list)
    queue,              \* BaseMessageBus.queue (the working queue)
    pc,                 \* position of the bus: idle, loop, command, event
    current,            \* the message popped last (local `message` of handle)
    idx,                \* position of handle_event's for loop (1-based)
    popStart,           \* Len(delivered) when `current` was popped
    raised,             \* the error the last public bus call raised, or NoError
    delivered,          \* handler invocations of the running/last handle() call
    uowEvents,          \* EventfulUnitOfWork._events
    seen,               \* the repository's __seen__ set
    repoEvents,         \* EventfulRepository._events
    aggEvents,          \* aggregate -> its private events queue
    drains,             \* results of exhausted repository collect_events()
                        \* calls since the last aggregate or seen-set change
    subscribed,         \* the subscribe() calls made so far, in order
    inserted,           \* ids in their order of insertion into the working
                        \* queue during the running/last handle() call
    stale,              \* ids of the messages that were in the working queue
                        \* when a handle() call replaced it
    mq,                 \* a MessageQueue object used on its own, with the
                        \* outcome of the last call made on it
    repoCall,           \* the last add/get/list/remove call made on the
                        \* tracked repository from outside, and its outcome
    tracker,            \* the metaclass that wraps the repository's methods
    uow,                \* the unit of work's scope, its auto_commit flag and
                        \* what its last __enter__ / __exit__ did
    broker,             \* the MessageBroker class: its instance, its
                        \* subscribers and the last call made on it
    singletons,         \* SingletonMeta._instances and the last call made
                        \* on a class of that metaclass
    cmp,                \* the last comparison made with < or >: its
                        \* operands and its outcome
    xlsx,               \* an XlsxRepository: its objects, its workbook in
                        \* memory and the saved file
    session,            \* the sessioned unit of work: its sessions and what
                        \* its last __enter__ / __exit__ did
    gen,                \* a generator made by the repository's
                        \* collect_events() and advanced step by step, with
                        \* how often each event was yielded so far
    now,                \* the wall clock read by datetime.datetime.now()
    nextId              \* number of message objects constructed so far

vars == <<command_handlers, event_handlers, ehDefault, queue, pc, current,
          idx, popStart, raised, delivered, uowEvents, seen, repoEvents,
          aggEvents, drains, subscribed, inserted, stale, mq, repoCall, tracker,
          uow, broker, singletons, cmp, xlsx, session, gen, now,
          nextId>>

dispatchVars == <<command_handlers, event_handlers, ehDefault, queue, pc,
                  current, idx, popStart, raised, delivered, subscribed,
                  inserted, stale>>
auxVars == <<tracker, uow, broker, singletons>>
extVars == <<cmp, xlsx, session, gen>>
busVars == <<dispatchVars, auxVars, extVars>>
repoVars == <<seen, repoEvents, aggEvents, drains, repoCall>>

(***************************************************************************)
(* Messages and errors.                                                    *)
(***************************************************************************)
\* A message object: its identity, its concrete type and its created_at.
Msg(i, ty, t) == [id |-> i, type |-> ty, created_at |-> t]

NoMessage == [id |-> -1, type |-> "None", created_at |-> 0]

IsCommand(m) == m.type \in CommandTypes
IsEvent(m) == m.type \in EventTypes

\* An __lt__ with its operands swapped.
LtSwapped(a, b) == b.created_at < a.created_at

\* An __lt__ that compares with <=.
LtOrEqual(a, b) == a.created_at <= b.created_at

\* AbstractMessage.__lt__ / __gt__ on two messages.
Lt(a, b) == a.created_at < b.created_at
Gt(a, b) == a.created_at > b.created_at

\* An error object: its class and the handler invocation that raised it
\* (index into delivered; 0 when the bus itself raised it).
Err(k, n) == [kind |-> k, by |-> n]
NoError == Err("None", 0)

(***************************************************************************)
(* MessageQueue (ddd/queue.py): a deque of messages kept sorted ascending  *)
(* by created_at with a stable sort.                                       *)
(***************************************************************************)
RECURSIVE InsertSorted(_, _)
\* One step of a stable insertion: m goes behind every queued message that
\* is not greater than it.
InsertSorted(q, m) ==
    IF q = <<>> THEN <<m>>
    ELSE IF Lt(m, Head(q)) THEN <<m>> \o q
    ELSE <<Head(q)>> \o InsertSorted(Tail(q), m)

RECURSIVE SortQ(_)
\* MessageQueue.sort(): stable sort by the message order.
SortQ(q) ==
    IF q = <<>> THEN <<>>
    ELSE InsertSorted(SortQ(SubSeq(q, 1, Len(q) - 1)), q[Len(q)])

\* MessageQueue(iterable), MessageQueue.append, MessageQueue.extend.
NewQueue(ms) == SortQ(ms)
QAppend(q, m) == SortQ(q \o <<m>>)
QExtend(q, ms) == SortQ(q \o ms)

IsSorted(q) == \A i \in 1..Len(q) - 1 : q[i].created_at <= q[i + 1].created_at

Ids(q) == {q[i].id : i \in 1..Len(q)}

\* What a caller hands to MessageQueue(x): something that is not iterable
\* (MessageQueue(1)), or an iterable of items, each a message constructed
\* at some time or something that is no message (MessageQueue([1, 2, 3])).
MsgItems == [kind : {"msg"}, t : Times]
OtherItems == {[kind |-> "int", t |-> 0]}
Items == MsgItems \cup OtherItems

Iterables(S) == UNION {[1..k -> S] : k \in 0..MaxIter}

Arguments ==
    {[iterable |-> FALSE, items |-> <<>>]}
        \cup [iterable : {TRUE}, items : Iterables(Items)]

\* The message objects of an iterable of messages; their ids number them in
\* iteration order, starting at base.
MkMsgs(items, base) ==
    [i \in 1..Len(items) |-> Msg(base + i - 1, "EvtA", items[i].t)]

\* The messages in front of the first item that is no message.
RECURSIVE MsgPrefix(_)
MsgPrefix(items) ==
    IF items = <<>> \/ Head(items).kind # "msg" THEN <<>>
    ELSE <<Head(items)>> \o MsgPrefix(Tail(items))

\* A constructor that appends item by item and fails at the first item
\* that is no message.
ConstructEager(x) ==
    IF ~x.iterable
    THEN [error |-> "TypeError", queue |-> <<>>]
    ELSE IF \E i \in 1..Len(x.items) : x.items[i].kind # "msg"
    THEN [error |-> "TypeError",
          queue |-> NewQueue(MkMsgs(MsgPrefix(x.items), 0))]
    ELSE [error |-> "None", queue |-> NewQueue(MkMsgs(x.items, 0))]

\* MessageQueue(x): the error it ends with and the messages the object
\* under construction holds at that point.
Construct(x) ==
    IF ~x.iterable
    THEN [error |-> "TypeError", queue |-> <<>>]
    ELSE IF \E i \in 1..Len(x.items) : x.items[i].kind # "msg"
    THEN [error |-> "TypeError", queue |-> <<>>]
    ELSE [error |-> "None", queue |-> NewQueue(MkMsgs(x.items, 0))]

\* A popleft that takes two messages off a queue of two or more.
QPopleftTwo(q) ==
    [msg |-> Head(q),
     rest |-> IF Len(q) >= 2 THEN Tail(Tail(q)) ELSE Tail(q)]

\* MessageQueue.popleft(), MessageQueue.clear(), bool(queue), len(queue).
QPopleft(q) == [msg |-> Head(q), rest |-> Tail(q)]
QClear(q) == <<>>
Truthy(q) == q # <<>>

\* The MessageQueue object before anything was done with it: MessageQueue().
NoQueue ==
    [queue |-> <<>>, error |-> "None", partial |-> <<>>,
     arg |-> [iterable |-> TRUE, items |-> <<>>],
     made |-> 0, op |-> "new", pc |-> "idle", count |-> 0, start |-> 0]

\* queue = MessageQueue(x).  When the constructor raises, the name keeps the
\* object it was bound to.
MqConstruct(x) ==
    /\ mq.pc # "drain"
    /\ LET c == Construct(x)
       IN  mq' = IF c.error = "None"
                 THEN [NoQueue EXCEPT !.queue = c.queue,
                                      !.made = Len(c.queue),
                                      !.arg = x, !.op = "construct"]
                 ELSE [mq EXCEPT !.error = c.error, !.partial = c.queue,
                                 !.arg = x, !.op = "construct",
                                 !.pc = "idle"]
    /\ UNCHANGED busVars
    /\ UNCHANGED repoVars
    /\ UNCHANGED <<uowEvents, now, nextId>>

\* The bookkeeping of a call on the queue that succeeds.
MqAfter(q, n, op) ==
    [mq EXCEPT !.queue = q, !.made = n, !.op = op, !.pc = "idle",
               !.error = "None", !.partial = <<>>,
               !.arg = NoQueue.arg]

\* queue.append(message).
MqAppend(t) ==
    /\ mq.pc # "drain"
    /\ mq.made < MaxQLen
    /\ mq' = MqAfter(QAppend(mq.queue, Msg(mq.made, "EvtA", t)),
                     mq.made + 1, "append")
    /\ UNCHANGED busVars
    /\ UNCHANGED repoVars
    /\ UNCHANGED <<uowEvents, now, nextId>>

\* queue.extend(messages).
MqExtend(items) ==
    /\ mq.pc # "drain"
    /\ mq.made + Len(items) <= MaxQLen
    /\ mq' = MqAfter(QExtend(mq.queue, MkMsgs(items, mq.made)),
                     mq.made + Len(items), "extend")
    /\ UNCHANGED busVars
    /\ UNCHANGED repoVars
    /\ UNCHANGED <<uowEvents, now, nextId>>

\* queue.popleft() on a queue that holds a message.
MqPopleft ==
    /\ mq.pc # "drain"
    /\ mq.queue # <<>>
    /\ mq' = MqAfter(QPopleft(mq.queue).rest, mq.made, "popleft")
    /\ UNCHANGED busVars
    /\ UNCHANGED repoVars
    /\ UNCHANGED <<uowEvents, now, nextId>>

\* queue.clear().
MqClear ==
    /\ mq.pc # "drain"
    /\ mq' = MqAfter(QClear(mq.queue), mq.made, "clear")
    /\ UNCHANGED busVars
    /\ UNCHANGED repoVars
    /\ UNCHANGED <<uowEvents, now, nextId>>

\* queue.sort(), as EventfulRepository._update_events calls it.
MqSort ==
    /\ mq.pc # "drain"
    /\ mq' = MqAfter(SortQ(mq.queue), mq.made, "sort")
    /\ UNCHANGED busVars
    /\ UNCHANGED repoVars
    /\ UNCHANGED <<uowEvents, now, nextId>>

\* count = 0; while queue: queue.popleft(); count += 1
MqLoopStart ==
    /\ mq.pc # "drain"
    /\ mq' = [mq EXCEPT !.pc = "drain", !.count = 0,
                        !.start = Len(mq.queue), !.op = "loop"]
    /\ UNCHANGED busVars
    /\ UNCHANGED repoVars
    /\ UNCHANGED <<uowEvents, now, nextId>>

MqLoopStep ==
    /\ mq.pc = "drain"
    /\ Truthy(mq.queue)
    /\ mq' = [mq EXCEPT !.queue = QPopleft(mq.queue).rest,
                        !.count = mq.count + 1]
    /\ UNCHANGED busVars
    /\ UNCHANGED repoVars
    /\ UNCHANGED <<uowEvents, now, nextId>>

MqLoopEnd ==
    /\ mq.pc = "drain"
    /\ ~Truthy(mq.queue)
    /\ mq' = [mq EXCEPT !.pc = "drained"]
    /\ UNCHANGED busVars
    /\ UNCHANGED repoVars
    /\ UNCHANGED <<uowEvents, now, nextId>>

(***************************************************************************)
(* Handlers.  A handler is a caller-supplied callable; what one invocation *)
(* does is an input of the model: how it ends, and which event it makes    *)
(* the domain produce before it ends.                                      *)
(***************************************************************************)
\* How an invocation ends: it returns, raises a recognized domain error
\* (errors.BaseError), or raises any other exception.
Outcomes == {"ok", "BaseError", "Exception"}

NoEffect == [kind |-> "none", agg |-> "-", type |-> "-", age |-> 0]

\* What an invocation does besides ending: nothing, or it appends to the
\* unit of work's own events queue (uow.events.append(event)) an event that
\* was constructed `age` ticks ago (0: the handler constructs it itself).
UowEffects ==
    {NoEffect} \cup [kind : {"uow"}, agg : {"-"}, type : EventTypes, age : Times]

\* The effects in which the handler constructs the event itself.
FreshUowEffects == {eff \in UowEffects : eff.age = 0}

\* Or it obtains an aggregate through the repository (whose wrapper records
\* it as seen) and mutates it, so that the aggregate constructs an event
\* and appends it to its private events queue.
AggEffects == [kind : {"agg"}, agg : Aggregates, type : EventTypes, age : {0}]

Effects == UowEffects \cup AggEffects

\* BaseMessage.__post_init__: created_at is the clock at construction.
NewMsg(ty) == Msg(nextId, ty, now)

\* The state of the collaborators after the handler's effect.
UowAfter(eff) ==
    IF eff.kind = "uow"
    THEN QAppend(uowEvents, Msg(nextId, eff.type, now - eff.age))
    ELSE uowEvents

AggAfter(eff) ==
    IF eff.kind = "agg"
    THEN [aggEvents EXCEPT ![eff.agg] = QAppend(@, NewMsg(eff.type))]
    ELSE aggEvents

\* TrackerMeta.wrap_get_method / wrap_add_method: the object is recorded.
SeenAfter(eff) == IF eff.kind = "agg" THEN seen \cup {eff.agg} ELSE seen

RECURSIVE Drain(_)
\* `while self.events: yield self.events.popleft()`, exhausted: the queue's
\* messages front to back (the queue is left empty).
Drain(q) == IF q = <<>> THEN <<>> ELSE <<Head(q)>> \o Drain(Tail(q))

\* EventfulUnitOfWork.collect_events(), exhausted: the unit of work drains
\* its own events queue, and nothing else.
UowCollect(events) == Drain(events)

\* A collect_events that assigns the harvest to the working queue.
BusCollectReplaces(q, events) == NewQueue(UowCollect(events))

\* BaseMessageBus.collect_events: self.queue.extend(list(uow.collect_events())).
BusCollect(q, events) == QExtend(q, UowCollect(events))

\* A queue[0] in place of popleft(): the message stays in the queue.
PopLeftPeeks(q) == [msg |-> Head(q), rest |-> q]

\* A queue.pop() in place of popleft(): the message at the back is taken.
PopRight(q) == [msg |-> q[Len(q)], rest |-> SubSeq(q, 1, Len(q) - 1)]

\* self.queue.popleft() in handle's loop: the message taken and the rest.
PopLeft(q) == [msg |-> Head(q), rest |-> Tail(q)]

\* A `raise RuntimeError(...) from error` in place of `raise error`.
ReraiseWrapped(err) == Err("RuntimeError", err.by)

\* `raise error` in handle_command's except clause.
Reraise(err) == err

\* A handle_event without its except clause.
EventCatchesNothing(out) == FALSE

\* The except clause of handle_event: which outcomes it catches.
EventCatches(out) == out = "BaseError"

RECURSIVE IdSeq(_)
IdSeq(q) == IF q = <<>> THEN <<>> ELSE <<Head(q).id>> \o IdSeq(Tail(q))

\* One handler invocation with the bookkeeping common to commands and
\* events: the effect on the collaborators, the delivery record and, when
\* `harvest` holds, the bus's collect_events() afterwards.
Invoke(h, out, eff, harvest) ==
    /\ eff.kind # "none" => nextId < MaxMsgs
    /\ eff.age <= now
    /\ nextId' = IF eff.kind = "none" THEN nextId ELSE nextId + 1
    /\ delivered' = Append(delivered,
           [id |-> current.id, type |-> current.type,
            created_at |-> current.created_at,
            handler |-> h, out |-> out, harvested |-> harvest,
            eff |-> eff,
            made |-> IF eff.kind = "none" THEN -1 ELSE nextId])
    /\ aggEvents' = AggAfter(eff)
    /\ seen' = SeenAfter(eff)
    /\ drains' = IF eff.kind = "agg" THEN <<>> ELSE drains
    /\ IF harvest
       THEN /\ queue' = BusCollect(queue, UowAfter(eff))
            /\ inserted' = inserted \o IdSeq(UowCollect(UowAfter(eff)))
            /\ uowEvents' = <<>>
       ELSE /\ queue' = queue
            /\ inserted' = inserted
            /\ uowEvents' = UowAfter(eff)
    /\ UNCHANGED <<repoEvents, repoCall, now>>

\* Time passes.
Tick ==
    /\ now < MaxTime
    /\ now' = now + 1
    /\ UNCHANGED busVars
    /\ UNCHANGED repoVars
    /\ UNCHANGED <<uowEvents, mq, nextId>>

(***************************************************************************)
(* BaseMessageBus.                                                         *)
(***************************************************************************)
\* A handle that appends the message to the queue it finds.
KeepQueue(q, m) == QAppend(q, m)

\* self.queue = MessageQueue([message]): whatever the attribute held before
\* is dropped.
ResetQueue(q, m) == NewQueue(<<m>>)

\* handle(message), line 127: the working queue is rebuilt from the
\* message, which the caller constructed at time t.
Handle(ty, t) ==
    /\ pc = "idle"
    /\ nextId < MaxMsgs
    /\ t <= now
    /\ queue' = ResetQueue(queue, Msg(nextId, ty, t))
    /\ stale' = stale \cup Ids(queue)
    /\ inserted' = <<nextId>>
    /\ nextId' = nextId + 1
    /\ pc' = "loop"
    /\ current' = NoMessage
    /\ idx' = 0
    /\ popStart' = 0
    /\ delivered' = <<>>
    /\ raised' = NoError
    /\ UNCHANGED <<command_handlers, event_handlers, ehDefault, uowEvents,
                   subscribed, mq, auxVars, extVars, now>>
    /\ UNCHANGED repoVars

\* One turn of handle's while loop up to the handler lookup: popleft, then
\* handle_message's isinstance dispatch; for an event the evaluation of
\* self.event_handlers[type(event)], the iterable of handle_event's loop.
Pop ==
    /\ pc = "loop"
    /\ queue # <<>>
    /\ current' = PopLeft(queue).msg
    /\ queue' = PopLeft(queue).rest
    /\ popStart' = Len(delivered)
    /\ IF IsCommand(current')
       THEN /\ pc' = "command"
            /\ idx' = 0
            /\ UNCHANGED <<event_handlers, raised>>
       ELSE IF current'.type \in DOMAIN event_handlers
       THEN /\ pc' = "event"
            /\ idx' = 1
            /\ UNCHANGED <<event_handlers, raised>>
       ELSE IF ehDefault
       THEN \* defaultdict.__missing__ stores and returns a new empty list
            /\ event_handlers' =
                   [ty \in DOMAIN event_handlers \cup {current'.type} |->
                       IF ty \in DOMAIN event_handlers
                       THEN event_handlers[ty] ELSE <<>>]
            /\ pc' = "event"
            /\ idx' = 1
            /\ UNCHANGED raised
       ELSE \* dict.__getitem__ raises KeyError out of handle()
            /\ raised' = Err("KeyError", 0)
            /\ pc' = "idle"
            /\ idx' = 0
            /\ UNCHANGED event_handlers
    /\ UNCHANGED <<auxVars, extVars, mq, stale, command_handlers, ehDefault, delivered, uowEvents,
                   subscribed, inserted, now, nextId>>
    /\ UNCHANGED repoVars

\* handle's while loop ends: the working queue is empty, handle returns.
Return ==
    /\ pc = "loop"
    /\ queue = <<>>
    /\ pc' = "idle"
    /\ UNCHANGED <<auxVars, extVars, mq, stale, command_handlers, event_handlers, ehDefault, queue,
                   current, idx, popStart, raised, delivered, uowEvents,
                   subscribed, inserted, now, nextId>>
    /\ UNCHANGED repoVars

\* handle_command when the command's type has no entry: the lookup inside
\* the try block raises KeyError, which `except BaseError` does not catch.
HandleCommandUnregistered ==
    /\ pc = "command"
    /\ current.type \notin DOMAIN command_handlers
    /\ raised' = Err("KeyError", 0)
    /\ pc' = "idle"
    /\ UNCHANGED <<auxVars, extVars, mq, stale, command_handlers, event_handlers, ehDefault, queue,
                   current, idx, popStart, delivered, uowEvents, subscribed,
                   inserted, now, nextId>>
    /\ UNCHANGED repoVars

\* A handle_command that swallows every exception of the handler.
AfterCommandSwallows(out) == "loop"

\* Where handle_command leaves the bus: on success back in handle's loop,
\* on an error out of handle().
AfterCommand(out) == IF out = "ok" THEN "loop" ELSE "idle"

\* handle_command for a registered type: the handler runs; on success the
\* else clause harvests; a BaseError is logged and re-raised; any other
\* exception propagates.
HandleCommand(out, eff) ==
    /\ pc = "command"
    /\ current.type \in DOMAIN command_handlers
    /\ Invoke(command_handlers[current.type], out, eff, out = "ok")
    /\ pc' = AfterCommand(out)
    /\ raised' = IF out = "ok" THEN raised
                 ELSE IF out = "BaseError"
                 THEN Reraise(Err(out, Len(delivered) + 1))
                 ELSE Err(out, Len(delivered) + 1)
    /\ UNCHANGED <<auxVars, extVars, mq, stale, command_handlers, event_handlers, ehDefault, current, idx,
                   popStart, subscribed>>

\* One turn of handle_event's for loop: the next handler runs; on success
\* the else clause harvests; a caught error is logged and the loop
\* continues; any other exception propagates out of handle().
HandleEvent(out, eff) ==
    /\ pc = "event"
    /\ idx <= Len(event_handlers[current.type])
    /\ Invoke(event_handlers[current.type][idx], out, eff, out = "ok")
    /\ IF out = "ok" \/ EventCatches(out)
       THEN /\ idx' = idx + 1
            /\ UNCHANGED <<pc, raised>>
       ELSE /\ pc' = "idle"
            /\ raised' = Err(out, Len(delivered) + 1)
            /\ UNCHANGED idx
    /\ UNCHANGED <<auxVars, extVars, mq, stale, command_handlers, event_handlers, ehDefault, current,
                   popStart, subscribed>>

\* handle_event's for loop is exhausted: back to handle's while loop.
EventDone ==
    /\ pc = "event"
    /\ idx > Len(event_handlers[current.type])
    /\ pc' = "loop"
    /\ UNCHANGED <<auxVars, extVars, mq, stale, command_handlers, event_handlers, ehDefault, queue,
                   current, idx, popStart, raised, delivered, uowEvents,
                   subscribed, inserted, now, nextId>>
    /\ UNCHANGED repoVars

\* A setdefault in place of the assignment: the first handler is kept.
SubscribeCommandKeepsFirst(table, ty, h) ==
    [x \in DOMAIN table \cup {ty} |->
        IF x \in DOMAIN table THEN table[x] ELSE h]

\* subscribe's command branch: self.command_handlers[message] = handler.
SubscribeCommand(table, ty, h) ==
    [x \in DOMAIN table \cup {ty} |-> IF x = ty THEN h ELSE table[x]]

\* subscribe's event branch on an existing (or defaulted) list:
\* self.event_handlers[message].append(handler).
SubscribeEvent(table, ty, h) ==
    [x \in DOMAIN table \cup {ty} |->
        IF x = ty
        THEN Append(IF ty \in DOMAIN table THEN table[ty] ELSE <<>>, h)
        ELSE table[x]]

\* A subscribe without its else branch: any other class is ignored.
SubscribeErrorIgnoresOthers(ty) ==
    IF ty \in EventTypes /\ ~(ty \in DOMAIN event_handlers \/ ehDefault)
    THEN "KeyError" ELSE "None"

\* The error subscribe(ty, h) ends with ("None": it returns): a plain dict
\* raises KeyError on the lookup of an event type it has no entry for.
SubscribeError(ty) ==
    IF ty \in CommandTypes THEN "None"
    ELSE IF ty \in EventTypes
    THEN IF ty \in DOMAIN event_handlers \/ ehDefault
         THEN "None" ELSE "KeyError"
    ELSE "TypeError"

\* subscribe(message, handler).
Subscribe(ty, h) ==
    /\ pc = "idle"
    /\ Len(subscribed) < MaxSubs
    /\ subscribed' = Append(subscribed,
           [type |-> ty, handler |-> h, error |-> SubscribeError(ty),
            before |-> IF ty \in DOMAIN event_handlers
                       THEN event_handlers[ty] ELSE <<>>])
    /\ command_handlers' =
           IF ty \in CommandTypes
           THEN SubscribeCommand(command_handlers, ty, h)
           ELSE command_handlers
    /\ event_handlers' =
           IF ty \in EventTypes /\ SubscribeError(ty) = "None"
           THEN SubscribeEvent(event_handlers, ty, h)
           ELSE event_handlers
    /\ UNCHANGED <<ehDefault, queue, pc, current, idx, popStart, raised,
                   delivered, uowEvents, inserted, stale, mq, auxVars, extVars, now,
                   nextId>>
    /\ UNCHANGED repoVars

(***************************************************************************)
(* The tracked repository and its aggregates.                              *)
(***************************************************************************)
\* The orders in which `for obj in seen` can visit a set.
Orders(S) ==
    {f \in [1..Cardinality(S) -> S] : \A i, j \in DOMAIN f : i # j => f[i] # f[j]}

\* A collect_events_from_object that reads the object's events without
\* popping them.
CollectFromObjectPeeks(q) == [results |-> q, left |-> q]

\* collect_events_from_object: pops the object's events until its queue is
\* falsy; the events taken and what is left of the queue.
CollectFromObject(q) == [results |-> Drain(q), left |-> <<>>]

RECURSIVE CollectFromObjects(_, _)
\* collect_events_from_objects: the events of the objects, in visiting order.
CollectFromObjects(order, events) ==
    IF order = <<>> THEN <<>>
    ELSE CollectFromObject(events[Head(order)]).results
             \o CollectFromObjects(Tail(order), events)

\* An _update_events on a plain deque, without the sort.
UpdateEventsUnsorted(events, child) == events \o child

\* EventfulRepository._update_events: the child events are put into the
\* repository's queue (extend), which is then sorted.
UpdateEvents(events, child) == SortQ(QExtend(events, child))

\* The aggregates' queues after _get_child_events.
AggsDrained ==
    [a \in Aggregates |->
        IF a \in seen THEN CollectFromObject(aggEvents[a]).left
        ELSE aggEvents[a]]

PendingIn(S) == UNION {Ids(aggEvents[a]) : a \in S}

\* repository.add(obj) through TrackerMeta.wrap_add_method: after the
\* wrapped method returned, the object is recorded as seen.
RepoAdd(a) ==
    /\ pc = "idle"
    /\ a \notin seen
    /\ seen' = seen \cup {a}
    /\ drains' = <<>>
    /\ UNCHANGED <<repoEvents, aggEvents, uowEvents, mq, repoCall, now, nextId>>
    /\ UNCHANGED busVars

\* repository.remove(obj) through TrackerMeta.wrap_remove_method.
RepoRemove(a) ==
    /\ pc = "idle"
    /\ a \in seen
    /\ seen' = seen \ {a}
    /\ drains' = <<>>
    /\ UNCHANGED <<repoEvents, aggEvents, uowEvents, mq, repoCall, now, nextId>>
    /\ UNCHANGED busVars

\* A mutating operation of an aggregate: it constructs an event and appends
\* it to its private events queue.
AggEmit(a, ty) ==
    /\ pc = "idle"
    /\ nextId < MaxEmits
    /\ aggEvents' = [aggEvents EXCEPT ![a] = QAppend(@, NewMsg(ty))]
    /\ nextId' = nextId + 1
    /\ drains' = <<>>
    /\ UNCHANGED <<seen, repoEvents, uowEvents, mq, repoCall, now>>
    /\ UNCHANGED busVars

\* list(repository.collect_events()): the generator is exhausted.  The
\* record kept of it: what was pending before, and what it yielded.
RepoCollect(order) ==
    /\ pc = "idle"
    /\ LET q == UpdateEvents(repoEvents, CollectFromObjects(order, aggEvents))
           entry == [seen |-> seen,
                     aggs |-> {a \in seen : aggEvents[a] # <<>>},
                     agg |-> PendingIn(seen),
                     res |-> Ids(repoEvents),
                     raw |-> repoEvents \o CollectFromObjects(order, aggEvents),
                     yielded |-> Drain(q)]
       IN  drains' = IF Len(drains) < 2 THEN Append(drains, entry)
                     ELSE <<drains[2], entry>>
    /\ repoEvents' = <<>>
    /\ aggEvents' = AggsDrained
    /\ UNCHANGED <<seen, uowEvents, mq, repoCall, now, nextId>>
    /\ UNCHANGED busVars

\* next(repository.collect_events()) on a new generator that is then
\* dropped: _update_events runs, one event is popped and yielded (none when
\* the queue is empty), the others stay in the repository's queue.
RepoNext(order) ==
    /\ pc = "idle"
    /\ LET q == UpdateEvents(repoEvents, CollectFromObjects(order, aggEvents))
       IN  repoEvents' = IF q = <<>> THEN <<>> ELSE Tail(q)
    /\ aggEvents' = AggsDrained
    /\ UNCHANGED <<seen, drains, uowEvents, mq, repoCall, now, nextId>>
    /\ UNCHANGED busVars

\* No generator made yet, and no event yielded.  state is the generator's:
\* none, created (not advanced yet), running (suspended at the yield), done
\* (exhausted).  left are the events that were in the repository's queue
\* when a suspended generator was last dropped.
NoGenerator ==
    [state |-> "none", count |-> [i \in 0..MaxEmits - 1 |-> 0], left |-> {}]

\* A loop body that yields the first event without taking it off the queue.
YieldStepPeeks(q) == [event |-> Head(q), rest |-> q]

\* `yield self.events.popleft()`: the event yielded and the queue left.
YieldStep(q) == [event |-> Head(q), rest |-> Tail(q)]

\* The generator's loop from its `while self.events:` test on queue q.
GenLoop(q) ==
    IF q = <<>>
    THEN [gen EXCEPT !.state = "done"]
    ELSE [gen EXCEPT !.state = "running",
                     !.count[YieldStep(q).event.id] = @ + 1]

GenQueue(q) == IF q = <<>> THEN <<>> ELSE YieldStep(q).rest

\* What the generator's operations leave alone.
GenFrame ==
    /\ UNCHANGED <<dispatchVars, auxVars>>
    /\ UNCHANGED <<cmp, xlsx, session>>
    /\ UNCHANGED <<seen, drains, repoCall, uowEvents, mq, now, nextId>>

\* g = repository.collect_events(): the generator object is made; no
\* statement of the function's body runs.
GenCreate ==
    /\ pc = "idle"
    /\ gen.state \in {"none", "done"}
    /\ gen' = [gen EXCEPT !.state = "created"]
    /\ UNCHANGED <<repoEvents, aggEvents>>
    /\ GenFrame

\* The first next(g): _update_events() runs, then the loop up to its first
\* yield, or to its end.
GenStart(order) ==
    /\ pc = "idle"
    /\ gen.state = "created"
    /\ LET q == UpdateEvents(repoEvents, CollectFromObjects(order, aggEvents))
       IN  /\ gen' = GenLoop(q)
           /\ repoEvents' = GenQueue(q)
    /\ aggEvents' = AggsDrained
    /\ GenFrame

\* A further next(g): the loop from the yield to the next yield, or to its
\* end.
GenNext ==
    /\ pc = "idle"
    /\ gen.state = "running"
    /\ gen' = GenLoop(repoEvents)
    /\ repoEvents' = GenQueue(repoEvents)
    /\ UNCHANGED aggEvents
    /\ GenFrame

\* The generator is dropped before it is exhausted.
GenDrop ==
    /\ pc = "idle"
    /\ gen.state \in {"created", "running"}
    /\ gen' = [gen EXCEPT !.state = "none",
                          !.left = IF gen.state = "running"
                                   THEN Ids(repoEvents) ELSE @]
    /\ UNCHANGED <<repoEvents, aggEvents>>
    /\ GenFrame

(***************************************************************************)
(* The tracking wrappers on their own (TrackerMeta, and alike Tracker of   *)
(* tracking_repository.py and the decorators of decorators/tracking.py).   *)
(* The wrapped methods are the concrete repository's: whether one returns  *)
(* or raises, and what it returns, is an input.                            *)
(***************************************************************************)
\* How the wrapped method ends.
CallOutcomes == {"ok", "raise"}

\* What a wrapped get(ref) can return: an aggregate, or None.
GetResults == Aggregates \cup {"None"}

\* What a wrapped list() can return: a collection of aggregates.
ListResults == UNION {[1..k -> Aggregates] : k \in 0..MaxResults}

Range(f) == {f[i] : i \in DOMAIN f}

NoCall == [op |-> "none", obj |-> "-", results |-> <<>>, out |-> "ok"]

\* An add wrapper that records the object before it calls the method.
WrapAddEager(s, obj, out) == s \cup {obj}

\* wrap_add_method's wrapper: method(self, obj); seen.add(obj).
WrapAdd(s, obj, out) == IF out = "ok" THEN s \cup {obj} ELSE s

\* wrap_get_method's wrapper: result = method(self, ref); seen.add(result).
WrapGet(s, result, out) == IF out = "ok" THEN s \cup {result} ELSE s

\* A list wrapper that records the first result only.
WrapListFirst(s, results, out) ==
    IF out = "ok" /\ results # <<>> THEN s \cup {results[1]} ELSE s

\* wrap_list_method's wrapper: results = method(self); seen.update(results).
WrapList(s, results, out) == IF out = "ok" THEN s \cup Range(results) ELSE s

\* wrap_remove_method's wrapper: method(self, obj); seen.discard(obj).
WrapRemove(s, obj, out) == IF out = "ok" THEN s \ {obj} ELSE s

\* The metaclasses that wrap a repository's methods: TrackerMeta of
\* ddd.metaclasses (Tracker of ddd.repositories wraps alike), which has its
\* own wrappers, and TrackerMeta of dodecahedron.metaclasses, whose
\* wrap_method hands each method to a decorator of decorators/tracking.py.
Trackers == {"ddd", "dodecahedron"}

\* track_first_positional_argument: result = method(self, obj, ...);
\* add_seen_object(self, obj).
TrackFirstPositionalArgument(s, obj, out) ==
    IF out = "ok" THEN s \cup {obj} ELSE s

\* track_single_return_value: result = method(...); if result is not None:
\* add_seen_object(self, result).
TrackSingleReturnValue(s, result, out) ==
    IF out = "ok" /\ result # "None" THEN s \cup {result} ELSE s

\* track_multiple_return_values: results = method(...); if results is not
\* None: update_seen_objects(self, results).
TrackMultipleReturnValues(s, results, out) ==
    IF out = "ok" THEN s \cup Range(results) ELSE s

\* wrap_method of dodecahedron's TrackerMeta: the decorator applied to the
\* method of the given name, as its effect on the seen set.  `arg` is what
\* the decorator looks at: the first argument, or what the method returns.
DodecahedronWrapMethod(name, s, arg, out) ==
    IF name = "add" THEN TrackFirstPositionalArgument(s, arg, out)
    ELSE IF name = "get" THEN TrackSingleReturnValue(s, arg, out)
    ELSE IF name = "list" THEN TrackMultipleReturnValues(s, arg, out)
    ELSE IF name = "remove" THEN TrackFirstPositionalArgument(s, arg, out)
    ELSE s

\* What a call from outside leaves alone.
TrackFrame ==
    /\ drains' = <<>>
    /\ UNCHANGED <<repoEvents, aggEvents, uowEvents, mq, now, nextId>>
    /\ UNCHANGED busVars

\* repository.add(obj).
TrackAdd(obj, out) ==
    /\ pc = "idle"
    /\ repoCall' = [op |-> "add", obj |-> obj, results |-> <<>>, out |-> out]
    /\ seen' = IF tracker = "ddd" THEN WrapAdd(seen, obj, out)
                ELSE DodecahedronWrapMethod("add", seen, obj, out)
    /\ TrackFrame

\* repository.get(ref), the wrapped method returning `result`.
TrackGet(result, out) ==
    /\ pc = "idle"
    /\ repoCall' = [op |-> "get", obj |-> IF out = "ok" THEN result ELSE "-",
                    results |-> <<>>, out |-> out]
    /\ seen' = IF tracker = "ddd" THEN WrapGet(seen, result, out)
                ELSE DodecahedronWrapMethod("get", seen, result, out)
    /\ TrackFrame

\* repository.list(), the wrapped method returning `results`.
TrackList(results, out) ==
    /\ pc = "idle"
    /\ repoCall' = [op |-> "list", obj |-> "-",
                    results |-> IF out = "ok" THEN results ELSE <<>>,
                    out |-> out]
    /\ seen' = IF tracker = "ddd" THEN WrapList(seen, results, out)
                ELSE DodecahedronWrapMethod("list", seen, results, out)
    /\ TrackFrame

\* repository.remove(obj).
TrackRemove(obj, out) ==
    /\ pc = "idle"
    /\ repoCall' = [op |-> "remove", obj |-> obj, results |-> <<>>,
                    out |-> out]
    /\ seen' = IF tracker = "ddd" THEN WrapRemove(seen, obj, out)
                ELSE DodecahedronWrapMethod("remove", seen, obj, out)
    /\ TrackFrame

(***************************************************************************)
(* The unit of work's scope.                                               *)
(***************************************************************************)
\* The unit of work as constructed: outside a scope, auto_commit never set.
NoScope ==
    [scope |-> "out", auto_commit |-> "unset", entries |-> 0, exits |-> 0,
     exc |-> FALSE, autoAtExit |-> "unset", commits |-> 0, rollbacks |-> 0, returned |-> "none",
     seenAtEntry |-> {}, left |-> {}, yielded |-> {}]

\* The auto_commit property: getattr(self, "_auto_commit", False).
AutoCommit(u) == IF u.auto_commit = "unset" THEN FALSE ELSE u.auto_commit = "True"

\* An __exit__ that commits whatever way the scope is left.
ExitCommitsAlways(u, exc) == IF AutoCommit(u) = TRUE THEN 1 ELSE 0

\* BaseUnitOfWork.__exit__: the number of commit() calls it makes.
\* `if self.auto_commit is True and not exc: self.commit()`
ExitCommits(u, exc) == IF AutoCommit(u) = TRUE /\ ~exc THEN 1 ELSE 0

\* BaseUnitOfWork.__exit__: the number of rollback() calls it makes.
ExitRollbacks(u, exc) == 0

\* An __enter__ that leaves the events queue alone.
EnterEventsKept(q) == q

\* EventfulUnitOfWork.__enter__: self._events.clear().
EnterEvents(q) == QClear(q)

\* What the scope's operations leave alone.
ScopeFrame ==
    /\ UNCHANGED dispatchVars
    /\ UNCHANGED repoVars
    /\ UNCHANGED <<tracker, broker, singletons, extVars, mq, now>>

\* uow.auto_commit = value, for a bool value.
UowSetAutoCommit(v) ==
    /\ pc = "idle"
    /\ uow.scope = "out"
    /\ uow' = [uow EXCEPT !.auto_commit = IF v THEN "True" ELSE "False"]
    /\ UNCHANGED <<uowEvents, nextId>>
    /\ ScopeFrame

\* `with uow:` is entered: EventfulUnitOfWork.__enter__ clears the events
\* queue, calls BaseUnitOfWork.__enter__ and returns self.  Its
\* repositories' seen sets are not its to touch.
UowEnter ==
    /\ pc = "idle"
    /\ uow.scope = "out"
    /\ uow.entries < MaxScopes
    /\ uowEvents' = EnterEvents(uowEvents)
    /\ uow' = [uow EXCEPT !.scope = "in", !.entries = @ + 1,
                          !.returned = "self", !.seenAtEntry = seen,
                          !.left = @ \cup Ids(uowEvents), !.yielded = {}]
    /\ UNCHANGED nextId
    /\ ScopeFrame

\* The scope is left, with or without an exception in flight:
\* BaseUnitOfWork.__exit__(exc, ...).
UowExit(exc) ==
    /\ pc = "idle"
    /\ uow.scope = "in"
    /\ uow' = [uow EXCEPT !.scope = "out", !.exits = @ + 1, !.exc = exc,
                          !.autoAtExit = uow.auto_commit,
                          !.commits = ExitCommits(uow, exc),
                          !.rollbacks = ExitRollbacks(uow, exc)]
    /\ UNCHANGED <<uowEvents, nextId>>
    /\ ScopeFrame

\* Inside the scope an event is appended to the unit of work's queue.
UowEmit(ty) ==
    /\ pc = "idle"
    /\ uow.scope = "in"
    /\ nextId < MaxEmits
    /\ uowEvents' = QAppend(uowEvents, NewMsg(ty))
    /\ nextId' = nextId + 1
    /\ UNCHANGED uow
    /\ ScopeFrame

\* list(uow.collect_events()) inside the scope.
UowCollectEvents ==
    /\ pc = "idle"
    /\ uow.scope = "in"
    /\ uow' = [uow EXCEPT !.yielded = @ \cup Ids(UowCollect(uowEvents))]
    /\ uowEvents' = <<>>
    /\ UNCHANGED nextId
    /\ ScopeFrame

(***************************************************************************)
(* MessageBroker.                                                          *)
(***************************************************************************)
Channels == {"c1", "c2"}
Callbacks == {"s1", "s2"}
Payloads == {"e1", "e2"}

\* The class before its first construction: _instance = None and
\* subscribers = defaultdict(list), both attributes of the class.  refs are
\* the objects the constructions returned; op, via, channel, data, log and
\* raised describe the last call made on the broker.
NoBroker ==
    [instance |-> 0, made |-> 0, refs |-> <<>>,
     subscribers |-> [c \in Channels |-> <<>>], keys |-> {},
     op |-> "none", via |-> 0, channel |-> "-", data |-> "-",
     log |-> <<>>, raised |-> FALSE]

\* A __new__ that makes a new object for every construction.
BrokerNewAlways(b) == [instance |-> b.made + 1, made |-> b.made + 1]

\* MessageBroker.__new__: the object is made only while cls._instance is
\* None.
BrokerNew(b) ==
    IF b.instance = 0
    THEN [instance |-> b.made + 1, made |-> b.made + 1]
    ELSE [instance |-> b.instance, made |-> b.made]

\* MessageBroker.make_message: the envelope of a published event.
MakeMessage(event, t) == [data |-> event, created_at |-> t]

\* A send_message without the try: the first exception of a subscriber
\* leaves the loop and the call.
SendMessageStops(subs, message, outs) ==
    LET bad == {i \in 1..Len(subs) : outs[i] = "raise"}
        last == IF bad = {} THEN Len(subs)
                ELSE CHOOSE i \in bad : \A j \in bad : i <= j
    IN  [log |-> [i \in 1..last |->
                    [sub |-> subs[i].sub, message |-> message, out |-> outs[i]]],
         raised |-> bad # {}]

\* MessageBroker.send_message: every subscriber of the channel is called
\* in turn inside try/except Exception/continue; outs[i] is what the i-th
\* call does.
SendMessage(subs, message, outs) ==
    [log |-> [i \in 1..Len(subs) |->
                [sub |-> subs[i].sub, message |-> message, out |-> outs[i]]],
     raised |-> FALSE]

\* The number of subscriptions made so far.
BrokerSubCount(b) ==
    Cardinality({<<c, i>> \in Channels \X (1..MaxBrokerSubs) :
                    i <= Len(b.subscribers[c])})

\* What the broker's operations leave alone.
BrokerFrame ==
    /\ UNCHANGED dispatchVars
    /\ UNCHANGED repoVars
    /\ UNCHANGED <<tracker, uow, singletons, extVars, uowEvents, mq, now, nextId>>

\* MessageBroker()
BrokerConstruct ==
    /\ Len(broker.refs) < MaxRefs
    /\ LET new == BrokerNew(broker)
       IN  broker' = [broker EXCEPT !.instance = new.instance,
                                    !.made = new.made,
                                    !.refs = Append(@, new.instance),
                                    !.op = "new", !.via = Len(broker.refs) + 1,
                                    !.channel = "-", !.data = "-",
                                    !.log = <<>>, !.raised = FALSE]
    /\ BrokerFrame

\* broker.subscribe(channel, subscriber), through the r-th reference:
\* self.subscribers is the class's defaultdict.
BrokerSubscribe(r, channel, subscriber) ==
    /\ r \in 1..Len(broker.refs)
    /\ BrokerSubCount(broker) < MaxBrokerSubs
    /\ broker' = [broker EXCEPT
                     !.subscribers[channel] =
                         Append(@, [sub |-> subscriber, via |-> r]),
                     !.keys = @ \cup {channel},
                     !.op = "subscribe", !.via = r, !.channel = channel,
                     !.data = "-", !.log = <<>>, !.raised = FALSE]
    /\ BrokerFrame

\* broker.publish(channel, event), through the r-th reference.  Reading
\* self.subscribers[channel] makes the defaultdict's entry.
BrokerPublish(r, channel, event, outs) ==
    /\ r \in 1..Len(broker.refs)
    /\ LET message == MakeMessage(event, now)
           sent == SendMessage(broker.subscribers[channel], message, outs)
       IN  broker' = [broker EXCEPT
                        !.keys = @ \cup {channel},
                        !.op = "publish", !.via = r, !.channel = channel,
                        !.data = event, !.log = sent.log,
                        !.raised = sent.raised]
    /\ BrokerFrame

(***************************************************************************)
(* SingletonMeta.                                                          *)
(***************************************************************************)
\* Classes with metaclass SingletonMeta.  TestA and TestB are two classes
\* named Test defined in the same module, as the classes of two test
\* functions are; Empty is a class whose instances are false (it defines
\* __len__, and has no items); Plain has no __singleton__ attribute.
SClasses == {"TestA", "TestB", "Empty", "Plain"}
ClassModule(c) == "tests"
ClassName(c) ==
    CASE c = "TestA" -> "Test"
      [] c = "TestB" -> "Test"
      [] c = "Empty" -> "Empty"
      [] c = "Plain" -> "Plain"

NoInstance == [id |-> 0, cls |-> "-"]

\* make_hashkey: str(hash(args)), taken to tell different tuples apart.
MakeHashkey(module, name) == <<module, name>>

\* get_hashkey(cls): the key is made of the class's module and name.
GetHashkey(c) == MakeHashkey(ClassModule(c), ClassName(c))

HashKeys == {GetHashkey(c) : c \in SClasses}

\* SingletonMeta.is_singleton(instance): getattr(obj, "__singleton__", False)
IsSingleton(inst) == inst.cls # "Plain"

\* bool(instance)
InstanceTruthy(inst) == inst # NoInstance /\ inst.cls # "Empty"

NoSingletonCall ==
    [op |-> "none", cls |-> "-", result |-> NoInstance, out |-> "ok",
     created |-> FALSE, prior |-> 0, afterReset |-> FALSE]

\* SingletonMeta._instances = {} (NoInstance stands for a missing key), with
\* the number of objects made, the instance each class was last given since
\* the last clear() or discard() (since), whether the class's registration
\* was reset since it was last instantiated (pending), and the last call.
NoSingletons ==
    [instances |-> [k \in HashKeys |-> NoInstance], made |-> 0,
     since |-> [c \in SClasses |-> 0],
     pending |-> [c \in SClasses |-> FALSE],
     last |-> NoSingletonCall]

\* A __call__ that never looks at the registry.
SingletonCallAlways(reg, made, c) ==
    LET key == GetHashkey(c)
        instance == [id |-> made + 1, cls |-> c]
    IN  [instances |-> IF IsSingleton(instance)
                       THEN [reg EXCEPT ![key] = instance] ELSE reg,
         made |-> made + 1, created |-> TRUE,
         result |-> IF IsSingleton(instance) THEN instance ELSE NoInstance,
         out |-> IF IsSingleton(instance) THEN "ok" ELSE "KeyError"]

\* SingletonMeta.__call__(cls): the object is made, and its __init__ run,
\* only while the key is not registered; it is registered when it is a
\* singleton; the result is read from the registry under the key.
SingletonCall(reg, made, c) ==
    LET key == GetHashkey(c)
        construct == reg[key] = NoInstance
        instance == [id |-> made + 1, cls |-> c]
        registry == IF construct /\ IsSingleton(instance)
                    THEN [reg EXCEPT ![key] = instance] ELSE reg
    IN  [instances |-> registry,
         made |-> IF construct THEN made + 1 ELSE made,
         created |-> construct,
         result |-> registry[key],
         out |-> IF registry[key] = NoInstance THEN "KeyError" ELSE "ok"]

\* SingletonMeta.clear(): cls._instances.clear()
SingletonClearRegistry(reg) == [k \in HashKeys |-> NoInstance]

\* SingletonMeta.discard(subclass):
\* `if cls._instances.get(key): del cls._instances[key]`
SingletonDiscardKey(reg, c) ==
    LET key == GetHashkey(c)
    IN  IF InstanceTruthy(reg[key]) THEN [reg EXCEPT ![key] = NoInstance]
        ELSE reg

\* The instance registered for class c.
Registered(reg, c) ==
    IF reg[GetHashkey(c)].cls = c THEN reg[GetHashkey(c)] ELSE NoInstance

\* What the metaclass's operations leave alone.
SingletonFrame ==
    /\ UNCHANGED dispatchVars
    /\ UNCHANGED repoVars
    /\ UNCHANGED <<tracker, uow, broker, extVars, uowEvents, mq, now, nextId>>

\* c(): the class is instantiated.
SingletonInstantiate(c) ==
    /\ LET call == SingletonCall(singletons.instances, singletons.made, c)
       IN  /\ call.made <= MaxInstances
           /\ singletons' =
                  [instances |-> call.instances,
                   made |-> call.made,
                   since |-> IF call.out = "ok"
                             THEN [singletons.since EXCEPT ![c] = call.result.id]
                             ELSE singletons.since,
                   pending |-> [singletons.pending EXCEPT ![c] = FALSE],
                   last |-> [op |-> "call", cls |-> c, result |-> call.result,
                             out |-> call.out, created |-> call.created,
                             prior |-> singletons.since[c],
                             afterReset |-> singletons.pending[c]]]
    /\ SingletonFrame

\* SingletonMeta.clear()
SingletonClear ==
    /\ singletons' =
           [singletons EXCEPT
              !.instances = SingletonClearRegistry(@),
              !.since = [c \in SClasses |-> 0],
              !.pending = [c \in SClasses |-> TRUE],
              !.last = [NoSingletonCall EXCEPT !.op = "clear"]]
    /\ SingletonFrame

\* SingletonMeta.discard(c)
SingletonDiscard(c) ==
    /\ singletons' =
           [singletons EXCEPT
              !.instances = SingletonDiscardKey(@, c),
              !.since = [d \in SClasses |-> 0],
              !.pending[c] = TRUE,
              !.last = [NoSingletonCall EXCEPT !.op = "discard", !.cls = c]]
    /\ SingletonFrame

(***************************************************************************)
(* Comparing messages.                                                     *)
(***************************************************************************)
\* The values compared: messages of every class, two objects of each for
\* every timestamp, and integers.
IntValues == {[int |-> v] : v \in Times}
Operands ==
    {Msg(i, ty, t) : i \in 1..2, ty \in MessageTypes, t \in Times}
        \cup IntValues

\* isinstance(x, AbstractMessage)
IsAbstractMessage(x) == "created_at" \in DOMAIN x

\* What a comparison method returns.
PyBool(b) == IF b THEN "True" ELSE "False"

\* An __lt__ that leaves a value of another class to the other operand.
DunderLtNotImplemented(self, other) ==
    IF IsAbstractMessage(other) THEN PyBool(Lt(self, other))
    ELSE "NotImplemented"

\* AbstractMessage.__lt__(self, other)
DunderLt(self, other) ==
    IF IsAbstractMessage(other) THEN PyBool(Lt(self, other)) ELSE "False"

\* AbstractMessage.__gt__(self, other)
DunderGt(self, other) ==
    IF IsAbstractMessage(other) THEN PyBool(Gt(self, other)) ELSE "False"

\* int.__lt__ / int.__gt__: NotImplemented for a value that is no number.
IntLt(self, other) ==
    IF IsAbstractMessage(other) THEN "NotImplemented"
    ELSE PyBool(self.int < other.int)
IntGt(self, other) ==
    IF IsAbstractMessage(other) THEN "NotImplemented"
    ELSE PyBool(self.int > other.int)

\* type(x).__lt__(x, y) and type(x).__gt__(x, y)
CallLt(x, y) == IF IsAbstractMessage(x) THEN DunderLt(x, y) ELSE IntLt(x, y)
CallGt(x, y) == IF IsAbstractMessage(x) THEN DunderGt(x, y) ELSE IntGt(x, y)

\* The expression x < y: x.__lt__(y), then the reflected y.__gt__(x) when
\* the first returned NotImplemented, then TypeError.
Less(x, y) ==
    IF CallLt(x, y) # "NotImplemented" THEN CallLt(x, y)
    ELSE IF CallGt(y, x) # "NotImplemented" THEN CallGt(y, x)
    ELSE "TypeError"

\* The expression x > y, with the reflected y.__lt__(x).
Greater(x, y) ==
    IF CallGt(x, y) # "NotImplemented" THEN CallGt(x, y)
    ELSE IF CallLt(y, x) # "NotImplemented" THEN CallLt(y, x)
    ELSE "TypeError"

NoComparison ==
    [op |-> "none", a |-> [int |-> 0], b |-> [int |-> 0], lt |-> "False",
     gt |-> "False", rlt |-> "False", rgt |-> "False"]

\* a < b, a > b, b < a and b > a are evaluated for two values of which at
\* least one is a message.
Compare(a, b) ==
    /\ IsAbstractMessage(a) \/ IsAbstractMessage(b)
    /\ cmp' = [op |-> "compare", a |-> a, b |-> b,
               lt |-> Less(a, b), gt |-> Greater(a, b),
               rlt |-> Less(b, a), rgt |-> Greater(b, a)]
    /\ UNCHANGED <<dispatchVars, auxVars>>
    /\ UNCHANGED repoVars
    /\ UNCHANGED <<xlsx, session, gen, uowEvents, mq, now, nextId>>

(***************************************************************************)
(* XlsxRepository.                                                         *)
(***************************************************************************)
\* The objects added: dicts with the index column "id" and one more column.
XlsxObjects == [id : {"1", "2"}, value : {"TEST", "SUCCESS"}]

\* The data rows of the file the repository is constructed on: no file, or
\* the file of the tests (a header row and the row of object "1").
XlsxFiles == {<<>>, <<[id |-> "1", value |-> "TEST"]>>}

\* No repository constructed yet.  maps are the maps of the ChainMap
\* _objects, most recent first, each a dict in insertion order; sheet are the
\* data rows of the worksheet in memory and saved those of the file.
NoXlsx ==
    [made |-> FALSE, maps |-> <<>>, sheet |-> <<>>, saved |-> <<>>,
     ops |-> 0, op |-> "none"]

\* key in self._objects: the ChainMap looks in every map.
ChainContains(maps, key) ==
    \E i \in 1..Len(maps) : \E j \in 1..Len(maps[i]) : maps[i][j].id = key

\* ChainMap.new_child()
NewChild(maps) == <<<<>>>> \o maps

\* ChainMap.parents: the maps but the first; a ChainMap without maps is
\* given an empty one.
Parents(maps) == IF Len(maps) > 1 THEN Tail(maps) ELSE <<<<>>>>

\* XlsxRepository._make_row(obj): list(obj.values())
MakeRow(obj) == <<obj.id, obj.value>>

\* XlsxRepository._load: the file's objects in the first map, then a child.
LoadMaps(file) == NewChild(<<file>>)

\* XlsxRepository.can_add(obj)
CanAdd(maps, obj) == ~ChainContains(maps, obj.id)

\* XlsxRepository._update_worksheet: the worksheet after the rows of the
\* most recent map are appended.
UpdateWorksheet(sheet, maps) ==
    sheet \o [i \in 1..Len(maps[1]) |-> MakeRow(maps[1][i])]

\* What the repository's operations leave alone.
XlsxFrame ==
    /\ UNCHANGED <<dispatchVars, auxVars>>
    /\ UNCHANGED repoVars
    /\ UNCHANGED <<cmp, session, gen, uowEvents, mq, now, nextId>>

\* XlsxRepository(filepath), on a path with or without a file.
XlsxConstruct(file) ==
    /\ ~xlsx.made
    /\ xlsx' = [made |-> TRUE,
                maps |-> IF file = <<>> THEN <<<<>>>> ELSE LoadMaps(file),
                sheet |-> [i \in 1..Len(file) |-> MakeRow(file[i])],
                saved |-> [i \in 1..Len(file) |-> MakeRow(file[i])],
                ops |-> 0, op |-> "new"]
    /\ XlsxFrame

\* repo.add(obj)
XlsxAdd(obj) ==
    /\ xlsx.made
    /\ xlsx.ops < MaxXlsxOps
    /\ xlsx' = [xlsx EXCEPT
                   !.maps = IF CanAdd(xlsx.maps, obj)
                            THEN [@ EXCEPT ![1] = Append(@, obj)] ELSE @,
                   !.ops = @ + 1, !.op = "add"]
    /\ XlsxFrame

\* repo.commit(): _update_worksheet(), then _save_file().
XlsxCommit ==
    /\ xlsx.made
    /\ xlsx.ops < MaxXlsxOps
    /\ xlsx' = [xlsx EXCEPT
                   !.sheet = UpdateWorksheet(xlsx.sheet, xlsx.maps),
                   !.saved = UpdateWorksheet(xlsx.sheet, xlsx.maps),
                   !.maps = NewChild(@),
                   !.ops = @ + 1, !.op = "commit"]
    /\ XlsxFrame

\* repo.rollback(): self._objects = self._objects.parents
XlsxRollback ==
    /\ xlsx.made
    /\ xlsx.ops < MaxXlsxOps
    /\ xlsx' = [xlsx EXCEPT !.maps = Parents(@), !.ops = @ + 1,
                            !.op = "rollback"]
    /\ XlsxFrame

(***************************************************************************)
(* SessionedUnitOfWork.                                                    *)
(***************************************************************************)
\* The unit of work as constructed: no session yet, auto_commit never set.
\* made counts the sessions the factory made, current is _session (0 for
\* none), closed how often each session was closed; exc and log describe
\* the last __exit__: whether an exception was in flight, the calls it made
\* on the session in order, and raised whether it raised itself.
NoSession ==
    [scope |-> "out", auto_commit |-> "unset", made |-> 0, current |-> 0,
     closed |-> [i \in 1..MaxSessions |-> 0],
     exc |-> FALSE, log |-> <<>>, raised |-> FALSE, called |-> "none"]

\* SessionedUnitOfWork.__exit__: super().__exit__(*args), which commits
\* under BaseUnitOfWork's condition, then self.close().  The calls made on
\* the session, when its commit() ends as commitOut says: an exception of
\* commit() leaves __exit__ before close() is reached.
SessionExitCalls(u, exc, commitOut) ==
    IF ExitCommits(u, exc) = 0 THEN <<"close">>
    ELSE IF commitOut = "ok" THEN <<"commit", "close">>
    ELSE <<"commit">>

\* How often a call is in the calls made.
Calls(log, name) == Cardinality({i \in 1..Len(log) : log[i] = name})

\* What the unit of work's operations leave alone.
SessionFrame ==
    /\ UNCHANGED <<dispatchVars, auxVars>>
    /\ UNCHANGED repoVars
    /\ UNCHANGED <<cmp, xlsx, gen, uowEvents, mq, now, nextId>>

\* uow.auto_commit = value, for a bool value.
SessionSetAutoCommit(v) ==
    /\ session' = [session EXCEPT !.auto_commit = IF v THEN "True" ELSE "False"]
    /\ SessionFrame

\* __enter__: the factory is called and its session kept in _session.
SessionEnter ==
    /\ session.scope = "out"
    /\ session.made < MaxSessions
    /\ session' = [session EXCEPT !.scope = "in", !.made = @ + 1,
                                  !.current = session.made + 1,
                                  !.called = "none"]
    /\ SessionFrame

\* commit(), called in the scope: the session's commit() is called.
SessionCommit ==
    /\ session.scope = "in"
    /\ session' = [session EXCEPT !.called = "commit"]
    /\ SessionFrame

\* rollback(), called in the scope: the session's rollback() is called.
SessionRollback ==
    /\ session.scope = "in"
    /\ session' = [session EXCEPT !.called = "rollback"]
    /\ SessionFrame

\* __exit__(exc, ...), with the session's commit() returning or raising.
SessionExit(exc, commitOut) ==
    /\ session.scope = "in"
    /\ LET calls == SessionExitCalls(session, exc, commitOut)
       IN  session' = [session EXCEPT
                         !.scope = "out", !.exc = exc, !.log = calls,
                         !.raised = Calls(calls, "close") = 0,
                         !.closed[session.current] = @ + Calls(calls, "close")]
    /\ SessionFrame

(***************************************************************************)
(* Construction: BaseMessageBus(uow, command_handlers, event_handlers)     *)
(* keeps the tables it is given.  The event table is a plain dict or a     *)
(* defaultdict(list).                                                      *)
(***************************************************************************)
EmptyTable == [x \in {} |-> <<>>]

\* Everything but the handler tables, as construction leaves it.
InitRest ==
    /\ queue = <<>>
    /\ pc = "idle"
    /\ current = NoMessage
    /\ idx = 0
    /\ popStart = 0
    /\ raised = NoError
    /\ delivered = <<>>
    /\ uowEvents = <<>>
    /\ seen = {}
    /\ repoEvents = <<>>
    /\ aggEvents = [a \in Aggregates |-> <<>>]
    /\ drains = <<>>
    /\ subscribed = <<>>
    /\ inserted = <<>>
    /\ stale = {}
    /\ mq = NoQueue
    /\ repoCall = NoCall
    /\ uow = NoScope
    /\ broker = NoBroker
    /\ singletons = NoSingletons
    /\ cmp = NoComparison
    /\ xlsx = NoXlsx
    /\ session = NoSession
    /\ gen = NoGenerator
    /\ now = 0
    /\ nextId = 0

\* A bus constructed with its tables filled in: the command type with or
\* without a handler, EvtA with two handlers, EvtB with no entry.
Init ==
    /\ command_handlers \in {EmptyTable, [ty \in {"CmdA"} |-> "h1"]}
    /\ ehDefault \in BOOLEAN
    /\ event_handlers = [ty \in {"EvtA"} |-> <<"h1", "h2">>]
    /\ tracker = "ddd"
    /\ InitRest

\* Dispatching, with a unit of work whose events queue the handlers fill
\* with events they construct.
Next ==
    \/ \E ty \in MessageTypes, t \in Times : Handle(ty, t)
    \/ Pop
    \/ Return
    \/ HandleCommandUnregistered
    \/ \E out \in Outcomes, eff \in FreshUowEffects : HandleCommand(out, eff)
    \/ \E out \in Outcomes, eff \in FreshUowEffects : HandleEvent(out, eff)
    \/ EventDone
    \/ Tick

Spec == Init /\ [][Next]_vars

\* A bus constructed with a handler for the command type and a
\* defaultdict(list) of event handlers.
InitOrder ==
    /\ command_handlers = [ty \in {"CmdA"} |-> "h1"]
    /\ ehDefault = TRUE
    /\ event_handlers = [ty \in {"EvtA"} |-> <<"h1", "h2">>]
    /\ tracker = "ddd"
    /\ InitRest

\* Dispatching, with handlers that also hand on events constructed earlier.
NextOrder ==
    \/ \E ty \in MessageTypes, t \in Times : Handle(ty, t)
    \/ Pop
    \/ Return
    \/ \E out \in Outcomes, eff \in UowEffects : HandleCommand(out, eff)
    \/ \E out \in Outcomes, eff \in UowEffects : HandleEvent(out, eff)
    \/ EventDone
    \/ Tick

SpecOrder == InitOrder /\ [][NextOrder]_vars

\* Dispatching, with handlers that also mutate aggregates obtained through
\* the repository.
NextHarvest ==
    \/ \E ty \in MessageTypes, t \in Times : Handle(ty, t)
    \/ Pop
    \/ Return
    \/ HandleCommandUnregistered
    \/ \E out \in Outcomes, eff \in Effects : HandleCommand(out, eff)
    \/ \E out \in Outcomes, eff \in Effects : HandleEvent(out, eff)
    \/ EventDone
    \/ Tick

SpecHarvest == Init /\ [][NextHarvest]_vars

\* A bus constructed with empty tables (the event table a plain dict with
\* empty lists for some event types, or an empty defaultdict).
InitWiring ==
    /\ command_handlers = EmptyTable
    /\ ehDefault \in BOOLEAN
    /\ event_handlers \in
           IF ehDefault THEN {EmptyTable}
           ELSE {[ty \in S |-> <<>>] : S \in SUBSET EventTypes}
    /\ tracker = "ddd"
    /\ InitRest

\* Wiring and dispatching, with handlers that produce no events.
NextWiring ==
    \/ \E ty \in MessageTypes \cup OtherTypes, h \in Handlers : Subscribe(ty, h)
    \/ \E ty \in MessageTypes, t \in Times : Handle(ty, t)
    \/ Pop
    \/ Return
    \/ HandleCommandUnregistered
    \/ \E out \in Outcomes : HandleCommand(out, NoEffect)
    \/ \E out \in Outcomes : HandleEvent(out, NoEffect)
    \/ EventDone

SpecWiring == InitWiring /\ [][NextWiring]_vars

\* The repository on its own: aggregates are added and removed, emit
\* events, and the repository's events are collected.
NextRepo ==
    \/ \E a \in Aggregates : RepoAdd(a)
    \/ \E a \in Aggregates : RepoRemove(a)
    \/ \E a \in Aggregates : AggEmit(a, "EvtA")
    \/ \E order \in Orders(seen) : RepoCollect(order)
    \/ \E order \in Orders(seen) : RepoNext(order)
    \/ Tick

\* The bus plays no part in it: it stays as constructed, with empty tables.
InitRepo ==
    /\ command_handlers = EmptyTable
    /\ ehDefault = FALSE
    /\ event_handlers = EmptyTable
    /\ tracker = "ddd"
    /\ InitRest

SpecRepo == InitRepo /\ [][NextRepo]_vars

\* A MessageQueue on its own: constructed, appended to, extended, popped,
\* cleared and looped over until it is empty.
NextQueue ==
    \/ \E x \in Arguments : MqConstruct(x)
    \/ \E t \in Times : MqAppend(t)
    \/ \E items \in Iterables(MsgItems) : MqExtend(items)
    \/ MqPopleft
    \/ MqClear
    \/ MqSort
    \/ MqLoopStart
    \/ MqLoopStep
    \/ MqLoopEnd

SpecQueue == InitRepo /\ [][NextQueue]_vars

\* A tracked repository called from outside.
NextTrack ==
    \/ \E a \in Aggregates, out \in CallOutcomes : TrackAdd(a, out)
    \/ \E r \in GetResults, out \in CallOutcomes : TrackGet(r, out)
    \/ \E rs \in ListResults, out \in CallOutcomes : TrackList(rs, out)
    \/ \E a \in Aggregates, out \in CallOutcomes : TrackRemove(a, out)

\* A repository of either metaclass, just constructed.
InitTrack ==
    /\ command_handlers = EmptyTable
    /\ ehDefault = FALSE
    /\ event_handlers = EmptyTable
    /\ tracker \in Trackers
    /\ InitRest

SpecTrack == InitTrack /\ [][NextTrack]_vars

\* A unit of work entered and left, with a repository used in its scopes.
NextScope ==
    \/ \E v \in BOOLEAN : UowSetAutoCommit(v)
    \/ UowEnter
    \/ \E exc \in BOOLEAN : UowExit(exc)
    \/ UowEmit("EvtA")
    \/ UowCollectEvents
    \/ \E a \in Aggregates : RepoAdd(a)

SpecScope == InitRepo /\ [][NextScope]_vars

\* The broker constructed, subscribed to and published through.
NextBroker ==
    \/ BrokerConstruct
    \/ \E r \in 1..MaxRefs, c \in Channels, f \in Callbacks :
           BrokerSubscribe(r, c, f)
    \/ \E r \in 1..MaxRefs, c \in Channels, ev \in Payloads :
           \E outs \in [1..Len(broker.subscribers[c]) -> CallOutcomes] :
               BrokerPublish(r, c, ev, outs)

SpecBroker == InitRepo /\ [][NextBroker]_vars

\* Classes of SingletonMeta instantiated, the registry cleared and discarded
\* from.
NextSingleton ==
    \/ \E c \in SClasses : SingletonInstantiate(c)
    \/ SingletonClear
    \/ \E c \in SClasses : SingletonDiscard(c)

SpecSingleton == InitRepo /\ [][NextSingleton]_vars

\* Values compared with < and >.
NextCompare == \E a \in Operands, b \in Operands : Compare(a, b)

SpecCompare == InitRepo /\ [][NextCompare]_vars

\* An XlsxRepository constructed, added to, committed and rolled back.
NextXlsx ==
    \/ \E file \in XlsxFiles : XlsxConstruct(file)
    \/ \E obj \in XlsxObjects : XlsxAdd(obj)
    \/ XlsxCommit
    \/ XlsxRollback

SpecXlsx == InitRepo /\ [][NextXlsx]_vars

\* Aggregates emitting while generators of collect_events() are made,
\* advanced and dropped.
NextGen ==
    \/ \E a \in Aggregates : RepoAdd(a)
    \/ \E a \in Aggregates : AggEmit(a, "EvtA")
    \/ GenCreate
    \/ \E order \in Orders(seen) : GenStart(order)
    \/ GenNext
    \/ GenDrop
    \/ Tick

SpecGen == InitRepo /\ [][NextGen]_vars

\* The steps handle() takes by itself once it was called: the interpreter
\* runs the call on, and every handler returns or raises.
BusStep ==
    \/ Pop
    \/ Return
    \/ HandleCommandUnregistered
    \/ \E out \in Outcomes, eff \in FreshUowEffects : HandleCommand(out, eff)
    \/ \E out \in Outcomes, eff \in FreshUowEffects : HandleEvent(out, eff)
    \/ EventDone

\* Dispatching to completion: calls of handle() come when they come, a
\* call once made is run on.
NextLive ==
    \/ \E ty \in MessageTypes, t \in Times : Handle(ty, t)
    \/ BusStep

SpecLive == Init /\ [][NextLive]_vars /\ WF_vars(BusStep)

\* A sessioned unit of work entered and left.
NextSession ==
    \/ \E v \in BOOLEAN : SessionSetAutoCommit(v)
    \/ SessionEnter
    \/ SessionCommit
    \/ SessionRollback
    \/ \E exc \in BOOLEAN, commitOut \in CallOutcomes :
           SessionExit(exc, commitOut)

SpecSession == InitRepo /\ [][NextSession]_vars

(***************************************************************************)
(* Properties.                                                             *)
(***************************************************************************)
\* The handler invocations made for the message popped last.
FanOut == SubSeq(delivered, popStart + 1, Len(delivered))

\* Position of a message in the order of insertion into the working queue.
Pos(id) == CHOOSE i \in 1..Len(inserted) : inserted[i] = id

\* a is dispatched before b: it is older, or as old and inserted earlier.
Before(a, b) ==
    \/ a.created_at < b.created_at
    \/ a.created_at = b.created_at /\ Pos(a.id) < Pos(b.id)

\* C1 (event fan-out isolation): while and after an event whose type has a
\* handler list is dispatched, the handlers invoked for it are the list's
\* handlers, each once, in registration order; no domain error (BaseError)
\* of an event handler is raised by handle(); and unless a handler raised an
\* unrecognized error, the whole list is invoked and handle() ends only
\* with an empty working queue and no error.
C1_FanOutIsolation ==
    (IsEvent(current) /\ current.type \in DOMAIN event_handlers) =>
        LET hs == event_handlers[current.type]
            n == Len(FanOut)
            fatal == \E i \in 1..n : FanOut[i].out = "Exception"
        IN  /\ n <= Len(hs)
            /\ \A i \in 1..n :
                   FanOut[i].id = current.id /\ FanOut[i].handler = hs[i]
            /\ raised.kind # "BaseError"
            /\ ~fatal =>
                   /\ pc = "event" => idx = n + 1
                   /\ pc \in {"loop", "idle"} => n = Len(hs)
                   /\ pc = "idle" => raised = NoError /\ queue = <<>>

\* C1 witness: an event's fan-out is over, its first handler raised a
\* domain error and its second handler ran and succeeded.
C1_Witness ==
    /\ pc = "loop"
    /\ IsEvent(current)
    /\ Len(FanOut) = 2
    /\ FanOut[1].out = "BaseError"
    /\ FanOut[2].out = "ok"
    /\ FanOut[1].handler = "h1"
    /\ FanOut[2].handler = "h2"

\* C2 (command fatality): when the handler of a command raised a domain
\* error, handle() has ended raising that very error object, no harvest
\* followed the failing invocation and no handler was invoked after it.
C2_CommandFatality ==
    (IsCommand(current) /\ Len(FanOut) > 0 /\ FanOut[1].out = "BaseError") =>
        /\ pc = "idle"
        /\ raised = Err("BaseError", popStart + 1)
        /\ Len(FanOut) = 1
        /\ ~FanOut[1].harvested

\* C2 witness: a command handler appended an event to the unit of work and
\* raised a domain error; the event was not harvested.
C2_Witness ==
    /\ IsCommand(current)
    /\ Len(FanOut) = 1
    /\ FanOut[1].out = "BaseError"
    /\ raised.kind = "BaseError"
    /\ uowEvents # <<>>
    /\ queue = <<>>

\* C3 (unregistered command), as claimed: handle(c) for a command type
\* without an entry fails with UnregisteredHandlerError, invokes no handler
\* and harvests nothing.
C3_UnregisteredCommand ==
    (pc = "idle" /\ IsCommand(current)
         /\ current.type \notin DOMAIN command_handlers) =>
        /\ raised.kind = "UnregisteredHandlerError"
        /\ delivered = <<>>

\* C4 (dispatch order), as claimed: the messages delivered to handlers
\* within one handle() call are in non-decreasing created_at order.
C4_DeliveredAscending ==
    \A i, j \in 1..Len(delivered) :
        i < j => delivered[i].created_at <= delivered[j].created_at

\* C4 (dispatch order), amended: every pop of handle's loop takes a message
\* of the working queue that is older than every other queued message, or
\* as old and inserted earlier.
C4_PopsSmallest ==
    [][(pc = "loop" /\ Len(queue') < Len(queue)) =>
           /\ \E i \in 1..Len(queue) : queue[i] = current'
           /\ \A i \in 1..Len(queue') : Before(current', queue'[i])]_vars

\* C4 witness: the message just popped was harvested after a message that
\* is still queued, and is older than it.
C4_Witness ==
    /\ pc = "event"
    /\ Len(FanOut) = 0
    /\ queue # <<>>
    /\ current.created_at < queue[1].created_at
    /\ Pos(current.id) > Pos(queue[1].id)

\* A handle() call has ended without raising.
ReturnedNormally == pc = "idle" /\ current # NoMessage /\ raised = NoError

\* C5 (harvest chain), as claimed: when handle(C) has returned, C's
\* handler made an aggregate obtained through the repository emit an event
\* of a type that has handlers, and every handler invoked succeeded and
\* did nothing else than that, then each event a handler made an aggregate
\* emit was delivered after it, and the unit of work has nothing left to
\* collect.
C5_HarvestChain ==
    (/\ ReturnedNormally
     /\ Len(delivered) > 0
     /\ delivered[1].type \in CommandTypes
     /\ delivered[1].eff.kind = "agg"
     /\ \A i \in 1..Len(delivered) :
            /\ delivered[i].out = "ok"
            /\ delivered[i].eff.kind \in {"none", "agg"}
            /\ delivered[i].eff.kind = "agg" => delivered[i].eff.type = "EvtA") =>
        /\ \A i \in 1..Len(delivered) :
               delivered[i].made # -1 =>
                   \E j \in i + 1..Len(delivered) :
                       delivered[j].id = delivered[i].made
        /\ uowEvents = <<>>

\* C6 (unit-of-work harvest), as claimed: an event that an aggregate
\* obtained through the repository emitted during a handler invocation has
\* reached the bus's working queue once the harvest after that invocation
\* is made.
C6_UowHarvest ==
    \A i \in 1..Len(delivered) :
        (delivered[i].harvested /\ delivered[i].eff.kind = "agg") =>
            \E k \in 1..Len(inserted) : inserted[k] = delivered[i].made

\* C7 (drain idempotence): an exhausted collect_events() of the repository
\* yields something when a seen aggregate held a pending event; the next
\* exhausted collect_events(), with no aggregate or seen-set change in
\* between, yields nothing; and with an empty seen set and an empty
\* repository queue it yields nothing.
C7_DrainIdempotence ==
    /\ \A i \in 1..Len(drains) :
           drains[i].agg # {} => drains[i].yielded # <<>>
    /\ Len(drains) = 2 => drains[2].yielded = <<>>
    /\ \A i \in 1..Len(drains) :
           (drains[i].seen = {} /\ drains[i].res = {}) =>
               drains[i].yielded = <<>>

\* C7 witness: two collections in a row, the first of pending events.
C7_Witness ==
    /\ Len(drains) = 2
    /\ drains[1].agg # {}
    /\ drains[1].yielded # <<>>
    /\ drains[2].yielded = <<>>

\* C8 (merged harvest order): an exhausted collect_events() of the
\* repository yields the pending events of all seen aggregates and the
\* events left in the repository's queue, each once, in non-decreasing
\* created_at order.
C8_MergedOrder ==
    \A i \in 1..Len(drains) :
        /\ IsSorted(drains[i].yielded)
        /\ Ids(drains[i].yielded) = drains[i].agg \cup drains[i].res
        /\ Len(drains[i].yielded) = Cardinality(drains[i].agg \cup drains[i].res)

\* C8 witness: a collection over two aggregates with pending events and a
\* residual event in the repository's queue, which met them out of order.
C8_Witness ==
    \E i \in 1..Len(drains) :
        /\ Cardinality(drains[i].aggs) = 2
        /\ drains[i].res # {}
        /\ drains[i].raw # drains[i].yielded

\* The subscribe() call made last for a type.
LastSub(ty) ==
    subscribed[CHOOSE k \in 1..Len(subscribed) :
                   /\ subscribed[k].type = ty
                   /\ \A m \in k + 1..Len(subscribed) : subscribed[m].type # ty]

WasSubscribed(ty) == \E k \in 1..Len(subscribed) : subscribed[k].type = ty

\* C9 (command exclusivity): a command type that was subscribed is mapped
\* to the handler subscribed last; and dispatching a command invokes the
\* handler subscribed last for its type, once, and no other.
C9_CommandExclusivity ==
    /\ [](\A ty \in CommandTypes :
              WasSubscribed(ty) =>
                  /\ ty \in DOMAIN command_handlers
                  /\ command_handlers[ty] = LastSub(ty).handler)
    /\ [][(pc = "command" /\ delivered' # delivered) =>
              /\ delivered' = Append(delivered, delivered'[Len(delivered')])
              /\ Len(delivered) = popStart
              /\ pc' # "command"
              /\ delivered'[Len(delivered')].handler
                     = LastSub(current.type).handler]_vars

\* C9 witness: h1 then h2 were subscribed to the command type, and a
\* command of that type was delivered to h2.
C9_Witness ==
    /\ Len(subscribed) = 2
    /\ subscribed[1].type = "CmdA" /\ subscribed[1].handler = "h1"
    /\ subscribed[2].type = "CmdA" /\ subscribed[2].handler = "h2"
    /\ IsCommand(current)
    /\ Len(FanOut) = 1
    /\ FanOut[1].handler = "h2"

\* C10 (event subscription appends), as claimed: every subscribe(E, h) for
\* an event type E succeeds, and leaves E's handler list as its previous
\* list (empty if there was none) followed by h.
C10_EventSubscribeAppends ==
    (Len(subscribed) > 0 /\ subscribed[Len(subscribed)].type \in EventTypes) =>
        LET sub == subscribed[Len(subscribed)]
        IN  /\ sub.error = "None"
            /\ sub.type \in DOMAIN event_handlers
            /\ event_handlers[sub.type] = Append(sub.before, sub.handler)

\* C11 (type mismatch on subscribe): a subscribe(X, h) where X is neither a
\* command type nor an event type ends with TypeError and leaves both
\* handler tables as they were.
C11_SubscribeTypeMismatch ==
    [][(subscribed' # subscribed
            /\ subscribed'[Len(subscribed')].type \in OtherTypes) =>
           /\ subscribed'[Len(subscribed')].error = "TypeError"
           /\ command_handlers' = command_handlers
           /\ event_handlers' = event_handlers]_vars

\* C11 witness: after a command handler was registered, a subscribe with a
\* class that is no message type failed, and the registration is still there.
C11_Witness ==
    /\ Len(subscribed) = 2
    /\ subscribed[1].type = "CmdA"
    /\ subscribed[2].type = "NotAMessage"
    /\ subscribed[2].error = "TypeError"
    /\ command_handlers = [ty \in {"CmdA"} |-> subscribed[1].handler]

\* C12 (event without handlers), as claimed: when an event whose type has
\* no registered handler was popped, no handler is invoked for it and
\* handle() raises nothing because of it.
C12_EventWithoutHandlers ==
    (/\ IsEvent(current)
     /\ \/ current.type \notin DOMAIN event_handlers
        \/ event_handlers[current.type] = <<>>) =>
        /\ FanOut = <<>>
        /\ raised = NoError

\* C13 (unrecognized errors are fatal): a handler invocation that raised an
\* error which is no domain error is the last invocation of its handle()
\* call; the call has ended raising that very error, and no harvest
\* followed the invocation.
C13_UnrecognizedFatal ==
    \A i \in 1..Len(delivered) :
        delivered[i].out = "Exception" =>
            /\ i = Len(delivered)
            /\ pc = "idle"
            /\ raised = Err("Exception", i)
            /\ ~delivered[i].harvested

\* C13 witness: the first of an event's two handlers raised an unrecognized
\* error while another message was still queued; the second handler was
\* not invoked and the queued message was not dispatched.
C13_Witness ==
    /\ pc = "idle"
    /\ IsEvent(current)
    /\ current.type \in DOMAIN event_handlers
    /\ Len(event_handlers[current.type]) = 2
    /\ Len(FanOut) = 1
    /\ FanOut[1].out = "Exception"
    /\ raised.kind = "Exception"
    /\ queue # <<>>

\* C14 (no cross-call queue state): every handle(m) starts with a working
\* queue that holds m and nothing else; and a message that an earlier
\* handle() call left in the working queue is neither queued nor delivered
\* to a handler afterwards.
C14_FreshQueue ==
    /\ [][(pc = "idle" /\ pc' = "loop") =>
              /\ Len(queue') = 1
              /\ queue'[1].id = nextId]_vars
    /\ [](/\ Ids(queue) \cap stale = {}
          /\ \A i \in 1..Len(delivered) : delivered[i].id \notin stale
          /\ current.id \notin stale)

\* C14 witness: a handle() call that followed one aborted with a message
\* still queued has delivered its own message to a handler.
C14_Witness ==
    /\ stale # {}
    /\ Len(delivered) > 0
    /\ \A i \in stale : i < delivered[1].id

\* C15 (MessageQueue sort invariant): after construction from an iterable
\* of messages and after any sequence of append, extend, popleft and clear,
\* the queue holds its messages in non-decreasing created_at order.
C15_QueueSorted == IsSorted(mq.queue)

\* C15 witness: a queue of three messages in which a message inserted later
\* stands in front of an older insertion because it was created earlier.
C15_Witness ==
    /\ Len(mq.queue) = 3
    /\ \E i \in 1..2 :
           /\ mq.queue[i].id > mq.queue[i + 1].id
           /\ mq.queue[i].created_at < mq.queue[i + 1].created_at

\* C16 (MessageQueue stability): two queued messages with equal created_at
\* stand in the order in which they were inserted into the queue.
C16_QueueStable ==
    \A i, j \in 1..Len(mq.queue) :
        (i < j /\ mq.queue[i].created_at = mq.queue[j].created_at) =>
            mq.queue[i].id < mq.queue[j].id

\* C16 witness: two messages of equal created_at are queued behind a
\* message that was inserted after them.
C16_Witness ==
    /\ Len(mq.queue) = 3
    /\ mq.queue[1].id = 2
    /\ mq.queue[2].created_at = mq.queue[3].created_at
    /\ mq.queue[2].id = 0
    /\ mq.queue[3].id = 1

\* The argument of a constructor call is no iterable of messages.
BadArgument(x) ==
    \/ ~x.iterable
    \/ \E i \in 1..Len(x.items) : x.items[i].kind # "msg"

\* C17 (atomic construction): MessageQueue(x) ends with TypeError exactly
\* when x is not iterable or holds an item that is no message, and then the
\* object under construction holds no item of x.
C17_AtomicConstruction ==
    mq.op = "construct" =>
        /\ BadArgument(mq.arg) <=> mq.error = "TypeError"
        /\ mq.error = "TypeError" => mq.partial = <<>>
        /\ mq.error = "None" => Len(mq.queue) = Len(mq.arg.items)

\* C17 witness: the constructor was called with an iterable that holds a
\* message followed by something that is no message, and failed.
C17_Witness ==
    /\ mq.op = "construct"
    /\ mq.error = "TypeError"
    /\ Len(mq.arg.items) = 2
    /\ mq.arg.items[1].kind = "msg"
    /\ mq.arg.items[2].kind = "int"

\* C18 (draining a MessageQueue): a queue is truthy exactly when it holds a
\* message; a popleft removes the front message and no other; the loop
\* `while queue: queue.popleft()` makes as many pops as the queue held
\* messages and ends with an empty, falsy queue; after clear() the length
\* is 0.
C18_Draining ==
    /\ [](/\ Truthy(mq.queue) <=> Len(mq.queue) >= 1
          /\ mq.pc = "drain" => mq.count + Len(mq.queue) = mq.start
          /\ mq.pc = "drained" =>
                 /\ mq.count = mq.start
                 /\ Len(mq.queue) = 0
                 /\ ~Truthy(mq.queue)
          /\ mq.op = "clear" => Len(mq.queue) = 0)
    /\ [][(/\ mq' # mq
           /\ \/ mq'.op = "popleft"
              \/ (mq'.pc = "drain" /\ mq.pc = "drain")) =>
              mq.queue = <<mq.queue[1]>> \o mq'.queue]_vars

\* C18 witness: the loop has ended on a queue that held three messages.
C18_Witness ==
    /\ mq.pc = "drained"
    /\ mq.start = 3
    /\ mq.count = 3

\* C19 (implicit tracking): after a successful add(obj) the object is in
\* the seen set, and after a successful list() every element of the
\* returned collection is in the seen set; nothing else is added by them,
\* and an object seen before is not seen a second time.
C19_ImplicitTracking ==
    /\ [](/\ (repoCall.op = "add" /\ repoCall.out = "ok") =>
                 repoCall.obj \in seen
          /\ (repoCall.op = "list" /\ repoCall.out = "ok") =>
                 \A i \in 1..Len(repoCall.results) :
                     repoCall.results[i] \in seen)
    /\ [][(repoCall'.op = "add" /\ repoCall'.out = "ok") =>
              /\ seen' = seen \cup {repoCall'.obj}
              /\ Cardinality(seen') =
                     Cardinality(seen)
                         + (IF repoCall'.obj \in seen THEN 0 ELSE 1)]_vars
    /\ [][(repoCall'.op = "list" /\ repoCall'.out = "ok") =>
              /\ seen' = seen \cup Range(repoCall'.results)
              /\ Cardinality(seen') =
                     Cardinality(seen)
                         + Cardinality(Range(repoCall'.results) \ seen)]_vars

\* C19 witness: a list() returned two aggregates; both are seen now.
C19_Witness ==
    /\ repoCall.op = "list"
    /\ repoCall.out = "ok"
    /\ repoCall.results = <<"B", "A">>
    /\ seen = {"A", "B"}

\* C20 (success-only tracking): a call of add, get, list or remove whose
\* underlying method raises leaves the seen set as it was.
C20_SuccessOnly ==
    [][(repoCall' # repoCall /\ repoCall'.out = "raise") => seen' = seen]_vars

\* C20 witness: an add of an object failed while another object was seen;
\* the object is not in the seen set.
C20_Witness ==
    /\ repoCall.op = "add"
    /\ repoCall.out = "raise"
    /\ repoCall.obj \notin seen
    /\ seen # {}

\* C21 (get records only real results), as claimed: an object that get(ref)
\* returned is in the seen set, and the seen set never contains None.
C21_GetRecordsRealResults ==
    /\ (repoCall.op = "get" /\ repoCall.out = "ok" /\ repoCall.obj # "None") =>
           repoCall.obj \in seen
    /\ "None" \notin seen

\* C22 (remove untracks), as claimed: a successful remove(obj) leaves the
\* seen set as it was but for obj, which is not in it.
C22_RemoveUntracks ==
    [][(repoCall'.op = "remove" /\ repoCall'.out = "ok") =>
           seen' = seen \ {repoCall'.obj}]_vars

\* C23 (seen set is per scope), as claimed: whenever a unit-of-work scope is
\* entered, the seen set of its repository is empty.
C23_SeenPerScope == uow.scope = "in" => uow.seenAtEntry = {}

\* C26 (auto-commit on scope exit): the __exit__ of a scope calls commit()
\* once when auto_commit was set to True and no exception is in flight,
\* not at all otherwise, and never calls rollback().
C26_AutoCommit ==
    (uow.scope = "out" /\ uow.exits > 0) =>
        /\ uow.commits = IF uow.autoAtExit = "True" /\ ~uow.exc THEN 1 ELSE 0
        /\ uow.rollbacks = 0

\* C26 witness: a scope with auto_commit set to True was left with an
\* exception in flight, after an earlier scope.
C26_Witness ==
    /\ uow.scope = "out"
    /\ uow.exits = 2
    /\ uow.autoAtExit = "True"
    /\ uow.exc
    /\ uow.commits = 0

\* C27 (scope entry resets events): entering the scope returns the unit of
\* work itself and empties its events queue: an event that was queued when
\* a scope was entered is neither queued nor yielded by collect_events()
\* afterwards.
C27_EntryResetsEvents ==
    /\ [](/\ uow.scope = "in" => uow.returned = "self"
          /\ Ids(uowEvents) \cap uow.left = {}
          /\ uow.yielded \cap uow.left = {})
    /\ [][(uow.scope = "out" /\ uow'.scope = "in") => uowEvents' = <<>>]_vars

\* C27 witness: in a scope entered while an event of an earlier scope was
\* queued, collect_events() has yielded an event of the scope's own.
C27_Witness ==
    /\ uow.scope = "in"
    /\ uow.left # {}
    /\ uow.yielded # {}

\* C24 (broker isolation): a publish calls every subscriber of the channel
\* once per registration, in subscription order, each with the envelope of
\* the payload, whatever the earlier subscribers did, and does not raise.
C24_BrokerIsolation ==
    broker.op = "publish" =>
        LET subs == broker.subscribers[broker.channel]
        IN  /\ Len(broker.log) = Len(subs)
            /\ \A i \in 1..Len(subs) :
                   /\ broker.log[i].sub = subs[i].sub
                   /\ broker.log[i].message.data = broker.data
            /\ ~broker.raised

\* C24 witness: a publish to a channel with two subscribers, of which the
\* first raised and the second was called.
C24_Witness ==
    /\ broker.op = "publish"
    /\ Len(broker.log) = 2
    /\ broker.log[1].out = "raise"
    /\ broker.log[2].out = "ok"
    /\ broker.log[1].sub # broker.log[2].sub

\* C25 (broker shared registry): every construction returns the same
\* object; a publish through any reference calls the callbacks subscribed
\* through every reference; and a channel's subscribers change only by a
\* subscribe, which appends.
C25_SharedRegistry ==
    /\ [](/\ \A i, j \in 1..Len(broker.refs) : broker.refs[i] = broker.refs[j]
          /\ broker.op = "publish" =>
                 \A i \in 1..Len(broker.subscribers[broker.channel]) :
                     /\ i <= Len(broker.log)
                     /\ broker.log[i].sub =
                            broker.subscribers[broker.channel][i].sub)
    /\ [][/\ \A c \in Channels :
               /\ Len(broker.subscribers[c]) <= Len(broker'.subscribers[c])
               /\ SubSeq(broker'.subscribers[c], 1, Len(broker.subscribers[c]))
                      = broker.subscribers[c]
          /\ broker'.op # "subscribe" =>
                 broker'.subscribers = broker.subscribers]_vars

\* C25 witness: after two constructions, a publish through one reference
\* has called a callback subscribed through the other.
C25_Witness ==
    /\ broker.op = "publish"
    /\ Len(broker.refs) = 2
    /\ \E i \in 1..Len(broker.log) :
           broker.subscribers[broker.channel][i].via # broker.via

\* C28 (singleton identity): an instantiation of a singleton class that is
\* not the first since the registry was last reset (by clear() or by a
\* discard()) returns the instance the earlier ones returned, and does not
\* run __init__.
C28_SingletonIdentity ==
    (/\ singletons.last.op = "call"
     /\ singletons.last.cls # "Plain"
     /\ singletons.last.prior # 0) =>
        /\ singletons.last.out = "ok"
        /\ singletons.last.result.id = singletons.last.prior
        /\ ~singletons.last.created

\* C28 witness: a singleton class is instantiated again, other objects
\* having been made since its instance was.
C28_Witness ==
    /\ singletons.last.op = "call"
    /\ singletons.last.cls # "Plain"
    /\ singletons.last.prior # 0
    /\ singletons.last.prior < singletons.made

\* C29 (singleton reset), as claimed: the first instantiation of a
\* singleton class after clear(), or after discard() of that class, makes a
\* new instance, and discard(C) changes the registered instance of no class
\* but C.
C29_SingletonReset ==
    /\ []((/\ singletons.last.op = "call"
           /\ singletons.last.cls # "Plain"
           /\ singletons.last.afterReset) => singletons.last.created)
    /\ [][singletons'.last.op = "discard" =>
             \A d \in SClasses \ {singletons'.last.cls} :
                 Registered(singletons'.instances, d) =
                     Registered(singletons.instances, d)]_vars

\* C30 (singleton is per class), as claimed: an instantiation returns an
\* instance of the class instantiated, so two distinct classes are never
\* given the same object.
C30_SingletonPerClass ==
    (singletons.last.op = "call" /\ singletons.last.out = "ok") =>
        singletons.last.result.cls = singletons.last.cls

\* C31 (opt-in singleton), as claimed: every instantiation of a class of
\* SingletonMeta without __singleton__ succeeds, returns an object made by
\* that call, and leaves nothing registered under the class's key.
C31_OptInSingleton ==
    (singletons.last.op = "call" /\ singletons.last.cls = "Plain") =>
        /\ singletons.last.out = "ok"
        /\ singletons.last.created
        /\ singletons.last.result.id = singletons.made
        /\ singletons.instances[GetHashkey("Plain")] = NoInstance

\* C32 (message order): for two messages, a < b is true exactly when a's
\* created_at is smaller and a > b exactly when it is greater, so a < b
\* agrees with b > a and neither holds for equal timestamps; a comparison of
\* a message with a value that is no message is false, whichever side the
\* message is on, and none raises.
C32_MessageOrder ==
    cmp.op = "compare" =>
        IF IsAbstractMessage(cmp.a) /\ IsAbstractMessage(cmp.b)
        THEN /\ cmp.lt = PyBool(cmp.a.created_at < cmp.b.created_at)
             /\ cmp.gt = PyBool(cmp.a.created_at > cmp.b.created_at)
             /\ cmp.lt = cmp.rgt
             /\ cmp.gt = cmp.rlt
             /\ cmp.a.created_at = cmp.b.created_at =>
                    cmp.lt = "False" /\ cmp.gt = "False"
        ELSE /\ cmp.lt = "False"
             /\ cmp.gt = "False"
             /\ cmp.rlt = "False"
             /\ cmp.rgt = "False"

\* C32 witness: a message has been compared with an integer.
C32_Witness ==
    /\ cmp.op = "compare"
    /\ IsAbstractMessage(cmp.a)
    /\ ~IsAbstractMessage(cmp.b)
    /\ cmp.lt = "False"
    /\ cmp.rgt = "False"

\* C33 (xlsx commits are idempotent per key), as claimed: after any
\* sequence of add, commit and rollback the saved worksheet holds at most
\* one data row for each index key.
C33_XlsxOneRowPerKey ==
    \A i, j \in 1..Len(xlsx.saved) :
        xlsx.saved[i][1] = xlsx.saved[j][1] => i = j

\* C34 (handle() does not change the handler tables), as claimed: no step
\* of a handle() call, from its start to its return or its abort, changes
\* the command handler table or the event handler table.
C34_HandleKeepsTables ==
    [][(pc # "idle" \/ pc' # "idle") =>
           /\ command_handlers' = command_handlers
           /\ event_handlers' = event_handlers]_vars

\* C35 (quiescence on return), as claimed: when handle() has returned
\* normally the working queue is empty, the unit of work has no event left
\* to collect, no seen aggregate holds a pending event, and every event a
\* handler produced during the call was delivered when its type has
\* handlers.
C35_Quiescence ==
    ReturnedNormally =>
        /\ queue = <<>>
        /\ uowEvents = <<>>
        /\ \A a \in seen : aggEvents[a] = <<>>
        /\ \A i \in 1..Len(delivered) :
               (/\ delivered[i].made # -1
                /\ delivered[i].eff.type \in DOMAIN event_handlers
                /\ event_handlers[delivered[i].eff.type] # <<>>) =>
                   \E j \in 1..Len(delivered) :
                       delivered[j].id = delivered[i].made

\* C36 (events of an aborted dispatch stay lost), as claimed: an event a
\* handler emitted during a handle() call that ended with a fatal error is
\* delivered to no handler by a handle() call started after its emission.
C36_AbortedEventsLost ==
    \A m \in 0..MaxMsgs :
        []((/\ pc = "idle"
            /\ raised # NoError
            /\ \E i \in 1..Len(delivered) : delivered[i].made = m) =>
               [](~(/\ inserted # <<>>
                    /\ inserted[1] > m
                    /\ \E j \in 1..Len(delivered) : delivered[j].id = m)))

\* C37 (fan-out completes before harvested events run): an event harvested
\* during the handling of an event is delivered only after every handler
\* registered for that event was invoked, and while an event is being
\* dispatched the working queue only gains messages and the event stays
\* the one dispatched.
C37_FanOutFirst ==
    /\ [](\A i, j \in 1..Len(delivered) :
             (/\ delivered[i].type \in EventTypes
              /\ delivered[i].made # -1
              /\ delivered[j].id = delivered[i].made) =>
                 /\ \A k \in 1..Len(delivered) :
                        delivered[k].id = delivered[i].id => k < j
                 /\ Cardinality({k \in 1..Len(delivered) :
                                    delivered[k].id = delivered[i].id})
                        = Len(event_handlers[delivered[i].type]))
    /\ [][pc = "event" =>
             /\ Ids(queue) \subseteq Ids(queue')
             /\ current' = current]_vars

\* C37 witness: the first handler of an event produced an event that was
\* harvested at once, and that event was delivered after the second
\* handler of the first event had run.
C37_Witness ==
    \E i, j \in 1..Len(delivered) :
        /\ i + 1 < j
        /\ delivered[i].type \in EventTypes
        /\ delivered[i].handler = "h1"
        /\ delivered[i].harvested
        /\ delivered[i].made # -1
        /\ delivered[i + 1].id = delivered[i].id
        /\ delivered[i + 1].handler = "h2"
        /\ delivered[j].id = delivered[i].made

\* C38 (harvest conserves events): every event an aggregate emitted is in
\* one place, pending on its aggregate, in the repository's queue or
\* yielded, and yielded at most once; when a generator is exhausted the
\* repository's queue is empty and the events a dropped generator had left
\* in it have been yielded; making a generator, and dropping one that was
\* never advanced, changes no queue.
C38_HarvestConserves ==
    /\ [](/\ \A i \in 0..MaxEmits - 1 :
                /\ gen.count[i] <= 1
                /\ i < nextId =>
                       Cardinality({a \in Aggregates : i \in Ids(aggEvents[a])})
                         + (IF i \in Ids(repoEvents) THEN 1 ELSE 0)
                         + gen.count[i] = 1
          /\ gen.state = "done" =>
                 /\ repoEvents = <<>>
                 /\ \A i \in gen.left : gen.count[i] = 1)
    /\ [][(\/ gen.state # "created" /\ gen'.state = "created"
           \/ gen.state = "created" /\ gen'.state = "none")
              => /\ aggEvents' = aggEvents
                 /\ repoEvents' = repoEvents
                 /\ gen'.count = gen.count]_vars

\* C38 witness: a generator was dropped while an event was left in the
\* repository's queue, and a later generator, now exhausted, yielded it.
C38_Witness ==
    /\ gen.state = "done"
    /\ gen.left # {}
    /\ \A i \in gen.left : gen.count[i] = 1

\* C39 (termination of dispatch): a handle() call that was started ends;
\* when it has ended without an error the working queue is empty, when it
\* has ended with an error of a handler that handler's invocation was the
\* last one; and every turn of its loop takes exactly one message off the
\* working queue.
C39_Termination ==
    /\ (pc # "idle") ~> (pc = "idle")
    /\ []((pc = "idle" /\ current # NoMessage) =>
              /\ raised = NoError => queue = <<>>
              /\ raised.by # 0 => raised.by = Len(delivered))
    /\ [][(pc = "loop" /\ pc' # "loop" /\ queue # <<>>) =>
              /\ Len(queue') = Len(queue) - 1
              /\ Ids(queue') = Ids(queue) \ {current'.id}]_vars

\* C39 witness: a handle() call has returned after it delivered its message
\* and an event harvested on the way.
C39_Witness ==
    /\ ReturnedNormally
    /\ queue = <<>>
    /\ \E i, j \in 1..Len(delivered) :
           /\ i < j
           /\ delivered[j].id = delivered[i].made

\* C40 (session lifecycle), as claimed: every scope entry takes a new session
\* from the factory; when the scope has been left, on whatever path, every
\* session made so far was closed exactly once, and a commit made by the
\* exit came before the close.
C40_SessionLifecycle ==
    /\ session.scope = "in" =>
           /\ session.current = session.made
           /\ session.closed[session.current] = 0
    /\ session.scope = "out" =>
           /\ \A i \in 1..session.made : session.closed[i] = 1
           /\ session.made > 0 =>
                  session.log \in {<<"close">>, <<"commit", "close">>}

=============================================================================
